---- MODULE Spec2Model ----
(***************************************************************************)
(* Model of the definition registry, patch engine, inheritance resolver    *)
(* and reference/conflict graph of the RimWorld definition server.         *)
(*                                                                         *)
(* JavaScript objects are referenced, not copied: a RimWorldDef lives once *)
(* in data.objs under its identity and data.defs, data.defsByType,         *)
(* data.defsByMod and data.abstractDefs hold identities.  phase is the     *)
(* position of RimWorldDefsServer.start; prev is the ServerData as the     *)
(* pass that ran last found it; scans tells how far the content scan of    *)
(* every source has got; reply is the answer to the last request; running *)
(* holds the position of every call of processDefsFile that has begun and  *)
(* not returned.                                                           *)
(***************************************************************************)
EXTENDS Integers, Sequences, FiniteSets, TLC

VARIABLES docs, pending, data, phase, prev, scans, reply, running

vars == <<docs, pending, data, phase, prev, scans, reply, running>>

(***************************************************************************)
(* Content trees: the parsed XML element.  A node is a string scalar, an   *)
(* array, or an object (string-keyed); Undef is JavaScript's undefined.    *)
(***************************************************************************)
Scalar(x) == [s |-> x]
Arr(q) == [a |-> q]
Tree(f) == [t |-> f]
Undef == [u |-> TRUE]
IsScalar(n) == DOMAIN n = {"s"}
IsArr(n) == DOMAIN n = {"a"}
IsTree(n) == DOMAIN n = {"t"}
IsUndef(n) == DOMAIN n = {"u"}
EmptyTree == Tree(<<>>)

\* obj[key]: undefined when the key is absent or obj holds no properties
Get(n, key) ==
    IF IsTree(n) /\ key \in DOMAIN n.t THEN n.t[key] ELSE Undef

\* JavaScript truthiness of a content value: undefined and "" are falsy
Truthy(n) == ~IsUndef(n) /\ ~(IsScalar(n) /\ n.s = "")

Keys(n) == IF IsTree(n) THEN DOMAIN n.t ELSE {}

\* f with f[k] = v (Map.set, obj[k] = v)
Put(f, k, v) == [x \in DOMAIN f \cup {k} |-> IF x = k THEN v ELSE f[x]]

\* f without k (delete obj[k])
Drop(f, k) == [x \in DOMAIN f \ {k} |-> f[x]]

SetKey(n, key, v) == Tree(Put(n.t, key, v))
DelKey(n, key) == Tree(Drop(n.t, key))

\* a || b on content values
OrElse(x, y) == IF Truthy(x) THEN x ELSE y

RECURSIVE SeqToSet(_)
SeqToSet(q) == IF q = <<>> THEN {} ELSE {Head(q)} \cup SeqToSet(Tail(q))

\* Array.prototype.splice(i, 1)
RemoveAt(q, i) == [j \in 1..(Len(q) - 1) |-> IF j < i THEN q[j] ELSE q[j + 1]]

(***************************************************************************)
(* Sources (ModInfo).  ModLoader gives every loaded source its own         *)
(* loadOrder: Core 0, then one more for each source in discovery order.    *)
(***************************************************************************)
Mods == {"Core", "ModA", "ModB"}

loadOrder == [m \in Mods |-> CASE m = "Core" -> 0 [] m = "ModA" -> 1 [] OTHER -> 2]

(***************************************************************************)
(* Registration: CombinedScanner.processDefsFile / DefParser.processDefsFile *)
(***************************************************************************)
\* def.defName || def['@_Name']
DefNameOf(content) == OrElse(Get(content, "defName"), Get(content, "@_Name"))

\* def['@_Abstract'] === 'True' || def.Abstract === 'True'
IsAbstractOf(content) ==
    \/ Get(content, "@_Abstract") = Scalar("True")
    \/ Get(content, "Abstract") = Scalar("True")

\* def['@_ParentName'] || def.ParentName
ParentOf(content) == OrElse(Get(content, "@_ParentName"), Get(content, "ParentName"))

NoParent == ""

\* the RimWorldDef object built for one element of a definitions document
NewRimDef(mod, defType, content) ==
    [defName |-> DefNameOf(content).s,
     type |-> defType,
     parent |-> IF Truthy(ParentOf(content)) THEN ParentOf(content).s ELSE NoParent,
     abstract |-> IsAbstractOf(content),
     content |-> content,
     originalContent |-> Undef,
     mod |-> mod,
     outgoingRefs |-> <<>>,
     incomingRefs |-> <<>>,
     patchHistory |-> <<>>,
     conflicts |-> <<>>]

OverrideConflict(defName, existingMod, mod) ==
    [type |-> "override",
     severity |-> "warning",
     defName |-> defName,
     mods |-> <<existingMod, mod>>,
     resolution |-> IF loadOrder[mod] > loadOrder[existingMod] THEN mod ELSE existingMod]

\* existing && existing.mod.packageId !== mod.packageId
IsOverride(d, defName, mod) ==
    /\ defName \in DOMAIN d.defs
    /\ d.objs[d.defs[defName]].mod # mod

\* the comparison of ranks left out: the last registration always installs
InstallsLastSeen(d, defName, mod) == TRUE

\* !existing || existing.mod.loadOrder < mod.loadOrder
Installs(d, defName, mod) ==
    \/ defName \notin DOMAIN d.defs
    \/ loadOrder[d.objs[d.defs[defName]].mod] < loadOrder[mod]

\* typeList.findIndex(d => d.defName === defName), 1-based; 0 for -1
FindIndexByName(d, typeList, defName) ==
    IF \E i \in 1..Len(typeList) : d.objs[typeList[i]].defName = defName
    THEN CHOOSE i \in 1..Len(typeList) :
            /\ d.objs[typeList[i]].defName = defName
            /\ \A j \in 1..(i - 1) : d.objs[typeList[j]].defName # defName
    ELSE 0

\* the type list after the displaced entry is spliced out of it: the list
\* searched is the bucket of the NEW definition's type
SpliceDisplaced(d, defType, defName) ==
    LET typeList == d.defsByType[defType]
        index == FindIndexByName(d, typeList, defName)
    IN  IF index # 0 THEN RemoveAt(typeList, index) ELSE typeList

\* data.defsByMod after a registration: the new holder is appended to its
\* source's list, nothing is taken out of any list
PushByMod(d, mod, id) ==
    LET list == IF mod \in DOMAIN d.defsByMod THEN d.defsByMod[mod] ELSE <<>>
    IN  Put(d.defsByMod, mod, Append(list, id))

\* one iteration of the inner loop of processDefsFile, for the element el
\* of a document of source mod; id is the identity of the new object
RegisterDef(d, id, mod, el) ==
    IF ~IsTree(el.content) \/ ~Truthy(DefNameOf(el.content)) THEN d
    ELSE
    LET defName == DefNameOf(el.content).s
        existing == defName \in DOMAIN d.defs
        override == IsOverride(d, defName, mod)
        conflict == OverrideConflict(defName, d.objs[d.defs[defName]].mod, mod)
        base == NewRimDef(mod, el.type, el.content)
        rimDef == IF override THEN [base EXCEPT !.conflicts = <<conflict>>] ELSE base
        d1 == [d EXCEPT !.objs = Put(@, id, rimDef),
                        !.conflicts = IF override THEN Append(@, conflict) ELSE @,
                        !.abstractDefs = IF rimDef.abstract THEN Put(@, defName, id) ELSE @]
        byType0 == IF el.type \in DOMAIN d.defsByType THEN d.defsByType
                   ELSE Put(d.defsByType, el.type, <<>>)
        d2 == [d1 EXCEPT !.defsByType = byType0]
        list == IF existing THEN SpliceDisplaced(d2, el.type, defName)
                ELSE d2.defsByType[el.type]
    IN  IF Installs(d, defName, mod)
        THEN [d1 EXCEPT !.defs = Put(@, defName, id),
                        !.defsKeys = IF existing THEN @ ELSE Append(@, defName),
                        !.defsByType = Put(byType0, el.type, Append(list, id)),
                        !.defsByMod = PushByMod(d, mod, id)]
        ELSE d1

\* processDefsFile: every element of the document, in document order
RECURSIVE RegisterFrom(_, _, _, _)
RegisterFrom(d, docId, doc, i) ==
    IF i > Len(doc.defs) THEN d
    ELSE RegisterFrom(RegisterDef(d, <<docId, i>>, doc.mod, doc.defs[i]), docId, doc, i + 1)

ProcessDefsFileOp(d, docId, doc) == RegisterFrom(d, docId, doc, 1)

\* no request was answered
NoReply == <<>>

\* no document is being processed
Idle == <<>>

\* the ServerData built by the server's constructor
EmptyData ==
    [defs |-> <<>>, defsKeys |-> <<>>, defsByType |-> <<>>, defsByMod |-> <<>>,
     abstractDefs |-> <<>>, globalPatches |-> <<>>, patchObjs |-> <<>>,
     conflicts |-> <<>>, objs |-> <<>>, referenceGraph |-> <<>>,
     mods |-> <<>>, loadOrder |-> <<>>]

(***************************************************************************)
(* Location expressions.  An expression is its leading slashes and its     *)
(* steps; a step is a name and what stands in brackets after it:           *)
(*   NoPred            name                                                *)
(*   DefNamePred(n)    name[defName="n"]                                   *)
(*   TextPred(n)       name[text()="n"]                                    *)
(*   Marker            name[]                                              *)
(*   MarkerNL          name[<newline>]                                     *)
(* Step names hold no slash, bracket, dot or blank, and among the names and *)
(* values used here none is a part of another.                             *)
(***************************************************************************)
NoPred == [k |-> "none"]
DefNamePred(n) == [k |-> "defName", v |-> n]
TextPred(n) == [k |-> "text", v |-> n]
Marker == [k |-> "marker"]
MarkerNL == [k |-> "markerNL"]
Step(name, pred) == [name |-> name, pred |-> pred]
XPath(lead, steps) == [lead |-> lead, steps |-> steps]

NoTarget == ""

\* /Defs\/([^\/\[]+)\[defName\s*=\s*["']([^"']+)["']\]/ at steps i, i+1
MatchesDefsPattern(x, i) ==
    /\ i + 1 <= Len(x.steps)
    /\ x.steps[i].name = "Defs"
    /\ x.steps[i].pred = NoPred
    /\ x.steps[i + 1].pred.k = "defName"

\* /\/\/([^\/\[]+)\[defName\s*=\s*["']([^"']+)["']\]/: the two slashes of
\* these expressions are the leading ones
MatchesDescendantPattern(x) ==
    /\ x.lead = 2
    /\ Len(x.steps) >= 1
    /\ x.steps[1].pred.k = "defName"

\* /Defs\/([^\/\[]+)\/defName\[text\(\)\s*=\s*["']([^"']+)["']\]/ at i
MatchesTextPattern(x, i) ==
    /\ i + 2 <= Len(x.steps)
    /\ x.steps[i].name = "Defs"
    /\ x.steps[i].pred = NoPred
    /\ x.steps[i + 1].pred = NoPred
    /\ x.steps[i + 2].name = "defName"
    /\ x.steps[i + 2].pred.k = "text"

\* parsePatchOperation: the first pattern that matches, leftmost, gives
\* patch.targetDef
TargetDefOf(x) ==
    IF \E i \in 1..Len(x.steps) : MatchesDefsPattern(x, i)
    THEN x.steps[(CHOOSE i \in 1..Len(x.steps) :
                    /\ MatchesDefsPattern(x, i)
                    /\ \A j \in 1..(i - 1) : ~MatchesDefsPattern(x, j)) + 1].pred.v
    ELSE IF MatchesDescendantPattern(x) THEN x.steps[1].pred.v
    ELSE IF \E i \in 1..Len(x.steps) : MatchesTextPattern(x, i)
    THEN x.steps[(CHOOSE i \in 1..Len(x.steps) :
                    /\ MatchesTextPattern(x, i)
                    /\ \A j \in 1..(i - 1) : ~MatchesTextPattern(x, j)) + 2].pred.v
    ELSE NoTarget

\* xpathToPath then split('.'): the leading slashes go, every bracket group
\* that holds no line break goes, the slashes become dots and then the
\* blanks go, so a bracket pair around a line break is left as "[]"
PartOf(step) == IF step.pred = MarkerNL THEN step.name \o "[]" ELSE step.name

\* lastPart.endsWith('[]') and lastPart.slice(0, -2)
EndsWithMarker(x) == x.steps # <<>> /\ x.steps[Len(x.steps)].pred = MarkerNL

ArrayNameOf(x) == x.steps[Len(x.steps)].name

xpathToPath(x) ==
    IF x.steps = <<>> THEN <<"">>
    ELSE [i \in 1..Len(x.steps) |-> PartOf(x.steps[i])]

\* the pieces of text of the expression a name can be found in
Tokens(x) ==
    {x.steps[i].name : i \in 1..Len(x.steps)}
    \cup {x.steps[i].pred.v : i \in {j \in 1..Len(x.steps) : x.steps[j].pred.k \in {"defName", "text"}}}
    \cup {"defName" : i \in {j \in 1..Len(x.steps) : x.steps[j].pred.k = "defName"}}

\* matchesXPath: xpath.includes(def.type) || xpath.includes(def.defName) || ...
matchesXPath(def, x) == def.type \in Tokens(x) \/ def.defName \in Tokens(x)

(***************************************************************************)
(* Patch documents: processPatchFile and parsePatchOperation               *)
(***************************************************************************)
NoConditions == [modLoaded |-> {}, modNotLoaded |-> {}]

\* operationClass.replace('PatchOperation', '')
OperationOf(class) ==
    CASE class = "PatchOperationAdd" -> "Add"
      [] class = "PatchOperationRemove" -> "Remove"
      [] class = "PatchOperationReplace" -> "Replace"
      [] class = "PatchOperationAddModExtension" -> "AddModExtension"
      [] class = "PatchOperationTest" -> "Test"
      [] OTHER -> class

\* the PatchOperation object of the order-th operation of a document
parsePatchOperation(op, mod, order) ==
    [mod |-> mod,
     operation |-> OperationOf(op.class),
     xpath |-> op.xpath,
     value |-> op.value,
     order |-> order,
     conditions |-> [modLoaded |-> op.mods, modNotLoaded |-> op.nomods],
     targetDef |-> TargetDefOf(op.xpath),
     success |-> "unset",
     error |-> FALSE,
     appliedTo |-> {}]

\* processPatchFile: patchOrder starts at 0 in every document
RECURSIVE ParseFrom(_, _, _, _)
ParseFrom(d, docId, doc, i) ==
    IF i > Len(doc.ops) THEN d
    ELSE ParseFrom([d EXCEPT
                      !.patchObjs = Put(@, <<docId, i - 1>>,
                                        parsePatchOperation(doc.ops[i], doc.mod, i - 1)),
                      !.globalPatches = Append(@, <<docId, i - 1>>)],
                   docId, doc, i + 1)

ProcessPatchFileOp(d, docId, doc) == ParseFrom(d, docId, doc, 1)

(***************************************************************************)
(* Patch application: PatchManager.applyPatches                            *)
(***************************************************************************)
\* the declared orders compared alone, the ranks of the sources left out
ComesBeforeByOrder(d, p, q) == d.patchObjs[p].order < d.patchObjs[q].order

\* the comparator of the sort of data.globalPatches
ComesBefore(d, p, q) ==
    IF loadOrder[d.patchObjs[p].mod] # loadOrder[d.patchObjs[q].mod]
    THEN loadOrder[d.patchObjs[p].mod] < loadOrder[d.patchObjs[q].mod]
    ELSE d.patchObjs[p].order < d.patchObjs[q].order

\* Array.prototype.sort is stable: an element goes after every element
\* that does not come after it
RECURSIVE InsertSorted(_, _, _)
InsertSorted(d, sorted, p) ==
    IF sorted = <<>> THEN <<p>>
    ELSE IF ComesBefore(d, p, Head(sorted)) THEN <<p>> \o sorted
    ELSE <<Head(sorted)>> \o InsertSorted(d, Tail(sorted), p)

RECURSIVE SortPatches(_, _)
SortPatches(d, q) ==
    IF q = <<>> THEN <<>>
    ELSE InsertSorted(d, SortPatches(d, SubSeq(q, 1, Len(q) - 1)), q[Len(q)])

\* checkPatchConditions; every source of Mods is loaded
LoadedMods == Mods

\* the sources required to be absent are not looked at
checkModLoadedOnly(p) == \A m \in p.conditions.modLoaded : m \in LoadedMods

checkPatchConditions(p) ==
    /\ \A m \in p.conditions.modLoaded : m \in LoadedMods
    /\ \A m \in p.conditions.modNotLoaded : m \notin LoadedMods

\* a thrown TypeError
Thrown == [err |-> TRUE]
IsThrown(n) == DOMAIN n = {"err"}

\* JSON.parse(JSON.stringify(content)): properties bound to undefined are
\* left out
RECURSIVE JsonClone(_)
JsonClone(n) ==
    IF IsTree(n)
    THEN Tree([key \in {k \in DOMAIN n.t : ~IsUndef(n.t[k])} |-> JsonClone(n.t[key])])
    ELSE IF IsArr(n) THEN Arr([i \in 1..Len(n.a) |-> JsonClone(n.a[i])])
    ELSE n

\* the last step of addToContent on the object cur; assigning a property
\* of a string throws in strict mode.  No expression of the runs below leads
\* through an array, so an array on the path is not told from a string.
AddLast(cur, x, parts, value) ==
    IF ~IsTree(cur) THEN Thrown
    ELSE IF EndsWithMarker(x)
    THEN LET arrayName == ArrayNameOf(x)
             old == Get(cur, arrayName)
             holder == IF Truthy(old) THEN old ELSE Tree([li |-> Arr(<<>>)])
             li0 == Get(holder, "li")
             li1 == IF ~Truthy(li0) THEN Arr(<<>>)
                    ELSE IF IsArr(li0) THEN li0 ELSE Arr(<<li0>>)
         IN  IF ~IsTree(holder) THEN Thrown
             ELSE SetKey(cur, arrayName, SetKey(holder, "li", Arr(Append(li1.a, value))))
    ELSE SetKey(cur, parts[Len(parts)], value)

\* addToContent from part i on: a missing or falsy intermediate becomes {}
RECURSIVE AddFrom(_, _, _, _, _)
AddFrom(cur, x, parts, i, value) ==
    IF i = Len(parts) THEN AddLast(cur, x, parts, value)
    ELSE IF ~IsTree(cur) THEN Thrown
    ELSE LET next == IF Truthy(Get(cur, parts[i])) THEN Get(cur, parts[i]) ELSE EmptyTree
             sub == AddFrom(next, x, parts, i + 1, value)
         IN  IF IsThrown(sub) THEN Thrown ELSE SetKey(cur, parts[i], sub)

addToContent(content, x, value) == AddFrom(content, x, xpathToPath(x), 1, value)

\* removeFromContent from part i on: a missing intermediate ends it
RECURSIVE RemoveFrom(_, _, _)
RemoveFrom(cur, parts, i) ==
    IF i = Len(parts)
    THEN IF IsTree(cur) /\ parts[i] \in DOMAIN cur.t THEN DelKey(cur, parts[i]) ELSE cur
    ELSE IF ~Truthy(Get(cur, parts[i])) THEN cur
    ELSE SetKey(cur, parts[i], RemoveFrom(Get(cur, parts[i]), parts, i + 1))

removeFromContent(content, x) == RemoveFrom(content, xpathToPath(x), 1)

\* replaceInContent from part i on
RECURSIVE ReplaceFrom(_, _, _, _)
ReplaceFrom(cur, parts, i, value) ==
    IF ~IsTree(cur) THEN Thrown
    ELSE IF i = Len(parts) THEN SetKey(cur, parts[i], value)
    ELSE LET next == IF Truthy(Get(cur, parts[i])) THEN Get(cur, parts[i]) ELSE EmptyTree
             sub == ReplaceFrom(next, parts, i + 1, value)
         IN  IF IsThrown(sub) THEN Thrown ELSE SetKey(cur, parts[i], sub)

replaceInContent(content, x, value) == ReplaceFrom(content, xpathToPath(x), 1, value)

\* case 'AddModExtension' of applyPatchToDef
addModExtension(content, value) ==
    LET old == Get(content, "modExtensions")
        holder == IF Truthy(old) THEN old ELSE Tree([li |-> Arr(<<>>)])
        li0 == Get(holder, "li")
        li1 == IF IsArr(li0) THEN li0
               ELSE IF Truthy(li0) THEN Arr(<<li0>>) ELSE Arr(<<>>)
    IN  IF ~IsTree(holder) THEN Thrown
        ELSE SetKey(content, "modExtensions", SetKey(holder, "li", Arr(Append(li1.a, value))))

\* the switch of applyPatchToDef: the content after the mutation, or Thrown
Mutate(content, p) ==
    CASE p.operation = "Add" -> addToContent(content, p.xpath, p.value)
      [] p.operation = "Remove" -> removeFromContent(content, p.xpath)
      [] p.operation = "Replace" -> replaceInContent(content, p.xpath, p.value)
      [] p.operation = "AddModExtension" -> addModExtension(content, p.value)
      [] OTHER -> content

\* the before-snapshot: taken when there is none yet
\* a snapshot taken at every operation
SnapshotAlways(def) == JsonClone(def.content)

Snapshot(def) ==
    IF IsUndef(def.originalContent) THEN JsonClone(def.content) ELSE def.originalContent

\* applyPatchToDef: snapshot, history and applied-to set first, then the
\* mutation, which may throw
applyPatchToDef(d, pid, id) ==
    LET def == d.objs[id]
        p == d.patchObjs[pid]
        result == Mutate(def.content, p)
        touched == [def EXCEPT !.originalContent = Snapshot(def),
                               !.patchHistory = Append(@, pid)]
        d1 == [d EXCEPT !.objs[id] = touched,
                        !.patchObjs[pid].appliedTo = @ \cup {def.defName}]
    IN  IF IsThrown(result) THEN [d |-> d1, threw |-> TRUE]
        ELSE [d |-> [d1 EXCEPT !.objs[id].content = result], threw |-> FALSE]

\* the loop of applyPatch over data.defs.entries(), from the i-th key on;
\* a throw leaves the loop
RECURSIVE ApplyToMatches(_, _, _)
ApplyToMatches(d, pid, i) ==
    IF i > Len(d.defsKeys) THEN [d |-> d, threw |-> FALSE]
    ELSE LET id == d.defs[d.defsKeys[i]]
         IN  IF matchesXPath(d.objs[id], d.patchObjs[pid].xpath)
             THEN LET r == applyPatchToDef(d, pid, id)
                  IN  IF r.threw THEN r ELSE ApplyToMatches(r.d, pid, i + 1)
             ELSE ApplyToMatches(d, pid, i + 1)

applyPatch(d, pid) ==
    LET p == d.patchObjs[pid]
    IN  IF p.targetDef # NoTarget
        THEN IF p.targetDef \in DOMAIN d.defs
             THEN applyPatchToDef(d, pid, d.defs[p.targetDef])
             ELSE [d |-> d, threw |-> FALSE]
        ELSE ApplyToMatches(d, pid, 1)

IncompatiblePatchConflict(p) ==
    [type |-> "incompatible_patch",
     severity |-> "error",
     xpath |-> p.xpath,
     mods |-> <<p.mod>>]

\* one iteration of the loop of applyPatches
ApplyOne(d, pid) ==
    IF ~checkPatchConditions(d.patchObjs[pid]) THEN d
    ELSE LET r == applyPatch(d, pid)
         IN  IF r.threw
             THEN [r.d EXCEPT !.patchObjs[pid].success = "false",
                              !.patchObjs[pid].error = TRUE,
                              !.conflicts = Append(@, IncompatiblePatchConflict(d.patchObjs[pid]))]
             ELSE [r.d EXCEPT !.patchObjs[pid].success = "true"]

RECURSIVE ApplyAll(_, _)
ApplyAll(d, i) ==
    IF i > Len(d.globalPatches) THEN d
    ELSE ApplyAll(ApplyOne(d, d.globalPatches[i]), i + 1)

\* detectPatchCollisions
\* patch.targetDef || patch.xpath, a string: an expression that is one bare
\* name is the same key as a target of that name
TargetKey(p) ==
    IF p.targetDef # NoTarget THEN <<"text", p.targetDef>>
    ELSE IF p.xpath.lead = 0 /\ p.xpath.steps = <<>> THEN <<"text", "">>
    ELSE IF p.xpath.lead = 0 /\ Len(p.xpath.steps) = 1 /\ p.xpath.steps[1].pred = NoPred
    THEN <<"text", p.xpath.steps[1].name>>
    ELSE <<"xpath", p.xpath>>

\* `${patch.xpath}:${patch.operation}`
XPathKey(p) == <<p.xpath, p.operation>>

\* the successful operations, in the order of data.globalPatches
RECURSIVE SuccessfulFrom(_, _)
SuccessfulFrom(d, i) ==
    IF i > Len(d.globalPatches) THEN <<>>
    ELSE IF d.patchObjs[d.globalPatches[i]].success = "true"
    THEN <<d.globalPatches[i]>> \o SuccessfulFrom(d, i + 1)
    ELSE SuccessfulFrom(d, i + 1)

\* the distinct values of q in order of first appearance
RECURSIVE DistinctInOrder(_)
DistinctInOrder(q) ==
    IF q = <<>> THEN <<>>
    ELSE LET rest == DistinctInOrder(SubSeq(q, 1, Len(q) - 1))
         IN  IF q[Len(q)] \in SeqToSet(rest) THEN rest ELSE Append(rest, q[Len(q)])

PatchCollisionConflict(d, group) ==
    LET mods == DistinctInOrder([i \in 1..Len(group) |-> d.patchObjs[group[i]].mod])
    IN  [type |-> "patch_collision",
         severity |-> "warning",
         xpath |-> d.patchObjs[group[1]].xpath,
         defName |-> d.patchObjs[group[1]].targetDef,
         mods |-> mods,
         resolution |-> mods[Len(mods)]]

\* whether a group of operations at one location and kind is reported
Collides(group) == Len(group) > 1

\* the conflicts of the groups of one target, in order
RECURSIVE CollisionsOfTarget(_, _, _)
CollisionsOfTarget(d, patches, xkeys) ==
    IF xkeys = <<>> THEN <<>>
    ELSE LET group == SelectSeq(patches, LAMBDA p : XPathKey(d.patchObjs[p]) = Head(xkeys))
             rest == CollisionsOfTarget(d, patches, Tail(xkeys))
         IN  IF Collides(group) THEN <<PatchCollisionConflict(d, group)>> \o rest ELSE rest

RECURSIVE CollisionsOf(_, _, _)
CollisionsOf(d, ok, tkeys) ==
    IF tkeys = <<>> THEN <<>>
    ELSE LET patches == SelectSeq(ok, LAMBDA p : TargetKey(d.patchObjs[p]) = Head(tkeys))
             xkeys == DistinctInOrder([i \in 1..Len(patches) |-> XPathKey(d.patchObjs[patches[i]])])
             rest == CollisionsOf(d, ok, Tail(tkeys))
         IN  IF Len(patches) > 1 THEN CollisionsOfTarget(d, patches, xkeys) \o rest ELSE rest

detectPatchCollisions(d) ==
    LET ok == SuccessfulFrom(d, 1)
        tkeys == DistinctInOrder([i \in 1..Len(ok) |-> TargetKey(d.patchObjs[ok[i]])])
    IN  [d EXCEPT !.conflicts = @ \o CollisionsOf(d, ok, tkeys)]

\* applyPatches: sort, apply in order, detect collisions
applyPatches(d) ==
    LET sorted == [d EXCEPT !.globalPatches = SortPatches(d, d.globalPatches)]
    IN  detectPatchCollisions(ApplyAll(sorted, 1))

(***************************************************************************)
(* Ingestion.  Every document of every source is read and parsed by its    *)
(* own promise, all of them started before any is awaited, so documents    *)
(* complete in any order.  What follows the read waits for no I/O:         *)
(* processDefsFile holds no await, and the awaits of processPatchFile are  *)
(* on parsePatchOperation, which waits for nothing, so their continuations *)
(* are microtasks that all run before the completion of another read is    *)
(* delivered.  The processing of one document is therefore one step.       *)
(***************************************************************************)
MaxDocs == 3

DocIds == 1..MaxDocs

Names == {"Foo", "Bar"}

Types == {"ThingDef", "RecipeDef"}

\* a concrete element <Type><defName>n</defName></Type>
ConcreteElem(ty, n) == [type |-> ty, content |-> Tree([defName |-> Scalar(n)])]

\* an abstract element <Type Name="n" Abstract="True"/>
AbstractElem(ty, n) ==
    [type |-> ty,
     content |-> Tree([x \in {"@_Name", "@_Abstract"} |->
                       IF x = "@_Name" THEN Scalar(n) ELSE Scalar("True")])]

DefsDoc(mod, elems) == [kind |-> "defs", mod |-> mod, defs |-> elems]

RegElems ==
    {ConcreteElem(ty, n) : ty \in Types, n \in Names}
    \cup {AbstractElem(ty, n) : ty \in Types, n \in Names}

\* the definition documents of the registry runs: one element each, and
\* one document holding two definitions of one name
RegVariants ==
    <<<<ConcreteElem("ThingDef", "Foo")>>, <<ConcreteElem("RecipeDef", "Foo")>>,
      <<ConcreteElem("ThingDef", "Bar")>>, <<ConcreteElem("RecipeDef", "Bar")>>,
      <<AbstractElem("ThingDef", "Foo")>>, <<AbstractElem("RecipeDef", "Foo")>>,
      <<AbstractElem("ThingDef", "Bar")>>, <<AbstractElem("RecipeDef", "Bar")>>,
      <<ConcreteElem("ThingDef", "Foo"), ConcreteElem("RecipeDef", "Foo")>>>>

ModSeq == <<"Core", "ModA", "ModB">>

RegChoices == 1..(Len(ModSeq) * Len(RegVariants))

RegDocAt(k) ==
    DefsDoc(ModSeq[((k - 1) \div Len(RegVariants)) + 1],
            RegVariants[((k - 1) % Len(RegVariants)) + 1])

\* document numbers carry no meaning (any document may complete first), so
\* the documents of a run are listed in nondecreasing order of their choice
RegDocLists ==
    {[i \in DocIds |-> RegDocAt(c[i])] :
        c \in {c \in [DocIds -> RegChoices] : \A i \in 1..(MaxDocs - 1) : c[i] <= c[i + 1]}}

\* the two content directories of a source
Kinds == {"defs", "patches"}

\* the documents of the directory of kind k of source m
DocsIn(m, k) == {i \in DOMAIN docs : docs[i].mod = m /\ docs[i].kind = k}

\* every scanModContent was started and has probed its directories, every
\* directory was listed: all documents are being read
AllListed == [started |-> Mods, probed |-> Mods, listed |-> Mods \X Kinds]

\* the scan of m counts as over as soon as it has started
ScanStarted(m) == m \in scans.started

\* the promise of scanModContent(m) has settled: the directories that
\* exist were listed and none of their documents is in flight
ScanFinished(m) ==
    /\ m \in scans.started
    /\ m \in scans.probed
    /\ \A k \in Kinds : DocsIn(m, k) # {} => <<m, k>> \in scans.listed
    /\ \A i \in pending : docs[i].mod # m

\* CombinedScanner.processXMLFile for document i, once its read has completed
ProcessXMLFile(i) ==
    /\ phase = "ingest"
    /\ i \in pending
    /\ pending' = pending \ {i}
    /\ data' = IF docs[i].kind = "defs"
               THEN ProcessDefsFileOp(data, i, docs[i])
               ELSE ProcessPatchFileOp(data, i, docs[i])
    /\ UNCHANGED <<docs, phase, prev, scans, reply, running>>

InitRegistry ==
    /\ docs \in RegDocLists
    /\ pending = DocIds
    /\ data = EmptyData
    /\ phase = "ingest"
    /\ prev = EmptyData
    /\ scans = AllListed
    /\ reply = NoReply
    /\ running = Idle

NextRegistry == \E i \in DocIds : ProcessXMLFile(i)

SpecRegistry == InitRegistry /\ [][NextRegistry]_vars

(***************************************************************************)
(* Registry claims                                                         *)
(***************************************************************************)
\* identities of the definitions of name n registered so far
RegisteredIds(n) ==
    {id \in DOMAIN data.objs : data.objs[id].defName = n}

Holders == {data.defs[n] : n \in DOMAIN data.defs}

OverrideConflictsOf(n) ==
    {k \in 1..Len(data.conflicts) :
        data.conflicts[k].type = "override" /\ data.conflicts[k].defName = n}

\* C1: when exactly two definitions of one name have been registered, by
\* two different sources, in either order, the current holder of the name
\* is the definition of the source with the higher priority rank, and
\* exactly one override conflict, of severity warning, is recorded for it.
C1_HigherRankHolds ==
    \A n \in Names :
        LET R == RegisteredIds(n)
        IN  (Cardinality(R) = 2 /\ Cardinality({data.objs[id].mod : id \in R}) = 2) =>
            /\ n \in DOMAIN data.defs
            /\ data.defs[n] \in R
            /\ \A id \in R : loadOrder[data.objs[id].mod] <= loadOrder[data.objs[data.defs[n]].mod]
            /\ Cardinality(OverrideConflictsOf(n)) = 1
            /\ \A k \in OverrideConflictsOf(n) : data.conflicts[k].severity = "warning"

\* C1 witness: two sources registered one name, the higher-ranked one first
\* (the conflict lists the earlier holder first), and it is still the holder.
C1_Witness ==
    \E n \in Names :
        /\ Cardinality(RegisteredIds(n)) = 2
        /\ \E k \in OverrideConflictsOf(n) :
            /\ loadOrder[data.conflicts[k].mods[1]] > loadOrder[data.conflicts[k].mods[2]]
            /\ data.objs[data.defs[n]].mod = data.conflicts[k].mods[1]

\* C7: the type buckets hold exactly the current holders: the bucket of
\* type T lists, once each, the holders of type T and nothing else, so a
\* displaced definition has left its old bucket.
C7_TypeBucketsExact ==
    /\ \A id \in Holders : data.objs[id].type \in DOMAIN data.defsByType
    /\ \A ty \in DOMAIN data.defsByType :
        LET list == data.defsByType[ty]
        IN  /\ SeqToSet(list) = {id \in Holders : data.objs[id].type = ty}
            /\ Cardinality(SeqToSet(list)) = Len(list)

\* C8: the per-source list of source S holds exactly the current holders
\* owned by S: a displaced definition of S is no longer listed under S.
C8_SourceIndexExact ==
    /\ \A id \in Holders : data.objs[id].mod \in DOMAIN data.defsByMod
    /\ \A m \in DOMAIN data.defsByMod :
        LET list == data.defsByMod[m]
        IN  /\ SeqToSet(list) = {id \in Holders : data.objs[id].mod = m}
            /\ Cardinality(SeqToSet(list)) = Len(list)

\* ToolHandlers.handleGetDef: data.defs.get(name) || data.abstractDefs.get(name)
NotFound == <<>>

handleGetDef(d, name) ==
    IF name \in DOMAIN d.defs THEN d.defs[name]
    ELSE IF name \in DOMAIN d.abstractDefs THEN d.abstractDefs[name]
    ELSE NotFound

\* C9: no abstract definition is the current holder of a name, none is
\* listed in a type bucket or in a per-source list; lookup by name answers
\* with the abstract definition only when the name has no current holder.
C9_AbstractNeverCurrent ==
    /\ \A id \in Holders : ~data.objs[id].abstract
    /\ \A ty \in DOMAIN data.defsByType :
        \A id \in SeqToSet(data.defsByType[ty]) : ~data.objs[id].abstract
    /\ \A m \in DOMAIN data.defsByMod :
        \A id \in SeqToSet(data.defsByMod[m]) : ~data.objs[id].abstract
    /\ \A n \in Names :
        (handleGetDef(data, n) # NotFound /\ data.objs[handleGetDef(data, n)].abstract)
            => n \notin DOMAIN data.defs

(***************************************************************************)
(* The patch pass after ingestion                                          *)
(***************************************************************************)
MaxPatchDocs == 2

\* RimWorldDefsServer.start: applyPatches once every scan task has finished
ApplyPatches ==
    /\ phase = "ingest"
    /\ \A m \in Mods : ScanFinished(m)
    /\ data' = applyPatches(data)
    /\ phase' = "patched"
    /\ prev' = data
    /\ UNCHANGED <<docs, pending, scans, reply, running>>

\* Core's definitions: Foo and Bar, both ThingDef
FooContent ==
    Tree([x \in {"defName", "label", "hp"} |->
          CASE x = "defName" -> Scalar("Foo") [] x = "label" -> Scalar("a") [] OTHER -> Scalar("10")])

BarContent ==
    Tree([x \in {"defName", "label"} |->
          IF x = "defName" THEN Scalar("Bar") ELSE Scalar("b")])

CoreDefsDoc ==
    DefsDoc("Core", <<[type |-> "ThingDef", content |-> FooContent],
                      [type |-> "ThingDef", content |-> BarContent]>>)

\* Defs/ThingDef[defName="Foo"]/key
FooKeyXPath(key) ==
    XPath(0, <<Step("Defs", NoPred), Step("ThingDef", DefNamePred("Foo")), Step(key, NoPred)>>)

\* Defs/ThingDef/key
TypeKeyXPath(key) ==
    XPath(0, <<Step("Defs", NoPred), Step("ThingDef", NoPred), Step(key, NoPred)>>)

PatchXPaths == <<FooKeyXPath("label"), FooKeyXPath("stat"), TypeKeyXPath("label")>>

PatchValues == <<Scalar("v1"), Scalar("v2")>>

PatchOp(class, x, value) ==
    [class |-> class, xpath |-> x, value |-> value, mods |-> {}, nomods |-> {}]

\* the operations of the patch runs: add and replace with either value,
\* remove, at every expression
PatchKinds == <<"PatchOperationAdd", "PatchOperationReplace", "PatchOperationRemove">>

PatchOpAt(k) ==
    LET perX == 2 * Len(PatchValues) + 1
        x == PatchXPaths[((k - 1) \div perX) + 1]
        r == (k - 1) % perX
    IN  IF r = 2 * Len(PatchValues) THEN PatchOp("PatchOperationRemove", x, Undef)
        ELSE PatchOp(PatchKinds[(r \div Len(PatchValues)) + 1], x, PatchValues[(r % Len(PatchValues)) + 1])

NumPatchOps == Len(PatchXPaths) * (2 * Len(PatchValues) + 1)

PatchMods == <<"ModA", "ModB">>

PatchesDoc(mod, ops) == [kind |-> "patches", mod |-> mod, ops |-> ops]

PatchDocAt(k) ==
    PatchesDoc(PatchMods[((k - 1) \div NumPatchOps) + 1], <<PatchOpAt(((k - 1) % NumPatchOps) + 1)>>)

PatchChoices == 1..(Len(PatchMods) * NumPatchOps)

\* document 1 holds Core's definitions, the others are patch documents,
\* listed in nondecreasing order of their choice
PatchDocLists ==
    {[i \in 1..(MaxPatchDocs + 1) |-> IF i = 1 THEN CoreDefsDoc ELSE PatchDocAt(c[i - 1])] :
        c \in {c \in [1..MaxPatchDocs -> PatchChoices] :
                 \A i \in 1..(MaxPatchDocs - 1) : c[i] <= c[i + 1]}}

InitPatch ==
    /\ docs \in PatchDocLists
    /\ pending = DOMAIN docs
    /\ data = EmptyData
    /\ phase = "ingest"
    /\ prev = EmptyData
    /\ scans = AllListed
    /\ reply = NoReply
    /\ running = Idle

NextPatch ==
    \/ \E i \in 1..(MaxPatchDocs + 1) : ProcessXMLFile(i)
    \/ ApplyPatches

SpecPatch == InitPatch /\ [][NextPatch]_vars

(***************************************************************************)
(* Patch claims                                                            *)
(***************************************************************************)
\* the run in which the documents complete in the order of their numbers
RECURSIVE IngestInOrder(_, _)
IngestInOrder(d, i) ==
    IF i > Len(docs) THEN d
    ELSE IngestInOrder(IF docs[i].kind = "defs" THEN ProcessDefsFileOp(d, i, docs[i])
                       ELSE ProcessPatchFileOp(d, i, docs[i]), i + 1)

ReferenceRun == applyPatches(IngestInOrder(EmptyData, 1))

\* the patch history of a definition as a reader sees it: the operations,
\* in order, without the name of the document they came from
HistoryOf(d, id) ==
    [i \in 1..Len(d.objs[id].patchHistory) |->
        LET P == d.patchObjs[d.objs[id].patchHistory[i]]
        IN  [mod |-> P.mod, operation |-> P.operation, xpath |-> P.xpath,
             value |-> P.value, order |-> P.order]]

\* C2: whatever the order in which the documents completed, after the
\* patch pass every definition has the content and the ordered patch
\* history it has in the run where the documents complete in the order of
\* their numbers: the outcome is a function of the input alone.
C2_SameOutcomeInEveryInterleaving ==
    phase = "patched" =>
        \A id \in DOMAIN data.objs :
            /\ data.objs[id].content = ReferenceRun.objs[id].content
            /\ HistoryOf(data, id) = HistoryOf(ReferenceRun, id)

\* the place in a definition a location expression names: the steps after
\* the step that selects the definition (Defs/Type[...]/k1/k2, //Type[...]/k1)
SelectorSteps(x) ==
    IF x.steps # <<>> /\ x.steps[1].name = "Defs" THEN 2
    ELSE IF x.lead = 2 THEN 1 ELSE 0

AddressedPath(x) ==
    [i \in 1..(Len(x.steps) - SelectorSteps(x)) |-> x.steps[i + SelectorSteps(x)].name]

RECURSIVE ValueAt(_, _)
ValueAt(n, path) ==
    IF path = <<>> THEN n ELSE ValueAt(Get(n, Head(path)), Tail(path))

\* the content the document gave the definition id
IngestedContent(id) == docs[id[1]].defs[id[2]].content

CollisionsAt(x) ==
    {k \in 1..Len(data.conflicts) :
        data.conflicts[k].type = "patch_collision" /\ data.conflicts[k].xpath = x}

\* C3: when two sources each have one applicable add operation with the
\* same location expression and these two are the operations applied to a
\* definition, then after the patch pass exactly one patch-collision
\* conflict is recorded for the expression, it names both sources, and the
\* value at the addressed location of the definition is the value of the
\* operation of the source with the higher priority rank.
C3_CollisionHigherRankSurvives ==
    phase = "patched" =>
        \A p, q \in DOMAIN data.patchObjs : \A id \in Holders :
            LET P == data.patchObjs[p]
                Q == data.patchObjs[q]
            IN  (/\ P.operation = "Add" /\ Q.operation = "Add"
                 /\ P.xpath = Q.xpath
                 /\ loadOrder[P.mod] < loadOrder[Q.mod]
                 /\ data.objs[id].patchHistory = <<p, q>>)
                =>
                /\ Cardinality(CollisionsAt(P.xpath)) = 1
                /\ \A k \in CollisionsAt(P.xpath) :
                    SeqToSet(data.conflicts[k].mods) = {P.mod, Q.mod}
                /\ ValueAt(data.objs[id].content, AddressedPath(P.xpath)) = Q.value

\* C6: a remove operation that addresses one existing key of a definition
\* and is the only operation applied to it leaves the before-snapshot equal
\* to the content the definition had, and a content without the addressed
\* key and with every other key as it was.
C6_RemoveDeletesAddressedKey ==
    phase = "patched" =>
        \A p \in DOMAIN data.patchObjs : \A id \in Holders :
            LET P == data.patchObjs[p]
                before == IngestedContent(id)
                path == AddressedPath(P.xpath)
            IN  (/\ P.operation = "Remove"
                 /\ data.objs[id].patchHistory = <<p>>
                 /\ Len(path) = 1
                 /\ path[1] \in Keys(before))
                =>
                /\ data.objs[id].originalContent = before
                /\ Keys(data.objs[id].content) = Keys(before) \ {path[1]}
                /\ \A key \in Keys(before) \ {path[1]} :
                    Get(data.objs[id].content, key) = Get(before, key)

(***************************************************************************)
(* Inheritance: ReferenceAnalyzer.mergeWithParent, resolveInheritance      *)
(***************************************************************************)
\* the deletion sentinel
Sentinel == Scalar("Inherit.Remove")

\* the parent's value is kept when the parent has the key
KeepParentValue(merged, key, value) ==
    IF key \in DOMAIN merged THEN merged ELSE Put(merged, key, value)

\* merged[key] = child[key]
Overwrite(merged, key, value) == Put(merged, key, value)

\* the key is kept and bound to undefined
SetUndefined(merged, key) == Put(merged, key, Undef)

\* delete merged[key]
DeleteKey(merged, key) == Drop(merged, key)

RECURSIVE mergeWithParent(_, _)

\* the loop of mergeWithParent over the child's own keys; keys are the keys
\* still to visit.  Each iteration touches merged[key] only, so the order
\* of the visits does not show in the result.
RECURSIVE MergeKeys(_, _, _)
MergeKeys(merged, child, keys) ==
    IF keys = {} THEN merged
    ELSE
    LET key == CHOOSE k \in keys : TRUE
        value == child[key]
        inherited == IF key \in DOMAIN merged THEN merged[key] ELSE Undef
        next == IF value = Sentinel THEN DeleteKey(merged, key)
                ELSE IF IsTree(value)
                THEN Put(merged, key, mergeWithParent(OrElse(inherited, EmptyTree), value))
                ELSE Overwrite(merged, key, value)
    IN  MergeKeys(next, child, keys \ {key})

\* A child that is a string or an array while the parent is an object is
\* never passed by resolveInheritance (contents are objects, and the loop
\* recurses on object values only); the index keys for..in would copy from
\* such a child are left out.
mergeWithParent(parent, child) ==
    IF IsUndef(child) THEN parent
    ELSE IF child = Sentinel THEN Undef
    ELSE IF IsArr(parent) THEN (IF IsArr(child) THEN child ELSE parent)
    ELSE IF ~IsTree(parent) THEN child
    ELSE IF IsTree(child) THEN Tree(MergeKeys(parent.t, child.t, DOMAIN child.t))
    ELSE Tree(parent.t)

\* data.defs.get(defName) || data.abstractDefs.get(defName)
LookupDef(d, defName) ==
    IF defName \in DOMAIN d.defs THEN d.defs[defName]
    ELSE IF defName \in DOMAIN d.abstractDefs THEN d.abstractDefs[defName]
    ELSE NotFound

\* a parent that gave no content is merged as an empty object
MergedContentAlways(parentContent, content) ==
    mergeWithParent(OrElse(parentContent, EmptyTree), content)

\* if (parentContent) def.content = mergeWithParent(parentContent, def.content)
MergedContent(parentContent, content) ==
    IF Truthy(parentContent) THEN mergeWithParent(parentContent, content)
    ELSE content

\* The closure resolve.  st = [d, resolved, overflow, content]: the data,
\* the set resolved, whether the call stack overflowed, and the value the
\* call returned.  active holds the names of the calls of resolve that
\* have not returned.  A name is added to resolved only after the call for
\* its parent has returned, so a call for a name that is in active and
\* not in resolved repeats the calls that led to it without end: the
\* engine throws RangeError when the stack is exhausted.
\* no name counts as resolved: every call resolves again
NeverResolved(st, defName) == FALSE

\* resolved.has(defName)
IsResolved(st, defName) == defName \in st.resolved

RECURSIVE Resolve(_, _, _)
Resolve(st, defName, active) ==
    IF IsResolved(st, defName)
    THEN [st EXCEPT !.content = IF defName \in DOMAIN st.d.defs
                                THEN st.d.objs[st.d.defs[defName]].content
                                ELSE Undef]
    ELSE
    LET id == LookupDef(st.d, defName)
    IN  IF id = NotFound THEN [st EXCEPT !.content = Undef]
        ELSE IF defName \in active THEN [st EXCEPT !.overflow = TRUE]
        ELSE
        LET def == st.d.objs[id]
            r == IF def.parent # NoParent
                 THEN Resolve(st, def.parent, active \cup {defName})
                 ELSE st
            content == IF def.parent # NoParent
                       THEN MergedContent(r.content, r.d.objs[id].content)
                       ELSE r.d.objs[id].content
        IN  IF r.overflow THEN r
            ELSE [d |-> [r.d EXCEPT !.objs[id].content = content],
                  resolved |-> r.resolved \cup {defName},
                  overflow |-> FALSE,
                  content |-> content]

\* for (const defName of data.defs.keys()) resolve(defName)
RECURSIVE ResolveAll(_, _)
ResolveAll(st, i) ==
    IF st.overflow \/ i > Len(st.d.defsKeys) THEN st
    ELSE ResolveAll(Resolve(st, st.d.defsKeys[i], {}), i + 1)

resolveInheritance(d) ==
    ResolveAll([d |-> d, resolved |-> {}, overflow |-> FALSE, content |-> Undef], 1)

\* RimWorldDefsServer.start: the inheritance pass; an error thrown by it
\* is caught by start, which ends the process
ResolveInheritance ==
    /\ phase = "patched"
    /\ LET r == resolveInheritance(data)
       IN  /\ data' = r.d
           /\ phase' = IF r.overflow THEN "crashed" ELSE "resolved"
    /\ prev' = data
    /\ UNCHANGED <<docs, pending, scans, reply, running>>

(***************************************************************************)
(* The inheritance pass after ingestion and patching                       *)
(***************************************************************************)
MaxInhDocs == 3

\* an object with the given keys and values
Obj(keys, vals) == Tree([k \in SeqToSet(keys) |->
                            vals[CHOOSE i \in 1..Len(keys) : keys[i] = k]])

Strs(q) == Arr([i \in 1..Len(q) |-> Scalar(q[i])])

\* Contents of the definitions of Core's documents: Base (concrete,
\* abstract, or itself a child of Child), children of Base, a child of a
\* parent no document defines, a child of Child, a definition naming
\* itself as parent.
InhContents ==
    << Obj(<<"defName", "hp", "tags">>,
           <<Scalar("Base"), Scalar("10"), Strs(<<"x", "y">>)>>),
       Obj(<<"@_Name", "@_Abstract", "hp", "tags", "stats">>,
           <<Scalar("Base"), Scalar("True"), Scalar("10"), Strs(<<"x", "y">>),
             Obj(<<"dmg", "spd">>, <<Scalar("5"), Scalar("2")>>)>>),
       Obj(<<"defName", "@_ParentName", "hp">>,
           <<Scalar("Base"), Scalar("Child"), Scalar("10")>>),
       Obj(<<"defName", "@_ParentName", "hp">>,
           <<Scalar("Child"), Scalar("Base"), Scalar("20")>>),
       Obj(<<"defName", "@_ParentName", "tags", "hp">>,
           <<Scalar("Child"), Scalar("Base"), Scalar("none"), Strs(<<"q">>)>>),
       Obj(<<"defName", "@_ParentName", "hp", "stats">>,
           <<Scalar("Child"), Scalar("Base"), Sentinel,
             Obj(<<"dmg", "rng">>, <<Sentinel, Scalar("3")>>)>>),
       Obj(<<"defName", "@_ParentName", "hp">>,
           <<Scalar("Child"), Scalar("Missing"), Sentinel>>),
       Obj(<<"defName", "hp">>, <<Scalar("Child"), Scalar("20")>>),
       Obj(<<"defName", "@_ParentName", "tags">>,
           <<Scalar("Leaf"), Scalar("Base"), Strs(<<"z">>)>>),
       Obj(<<"defName", "@_ParentName", "stats">>,
           <<Scalar("Leaf"), Scalar("Child"), Obj(<<"dmg">>, <<Scalar("1")>>)>>),
       Obj(<<"defName", "@_ParentName", "hp">>,
           <<Scalar("Leaf"), Scalar("Leaf"), Scalar("30")>>),
       Obj(<<"defName", "@_ParentName", "stats">>,
           <<Scalar("Child"), Scalar("Base"),
             Obj(<<"dmg", "rng">>, <<Sentinel, Sentinel>>)>>) >>

InhNames == {"Base", "Child", "Leaf"}

\* a second child of Child
TwigContent ==
    Obj(<<"defName", "@_ParentName", "tags">>,
        <<Scalar("Twig"), Scalar("Child"), Strs(<<"w">>)>>)

\* the documents: one for each content, and one holding two children of Child
InhChoices == 1..(Len(InhContents) + 1)

\* a definitions document of Core holding one ThingDef element, or two
InhDocAt(c) ==
    IF c <= Len(InhContents)
    THEN DefsDoc("Core", <<[type |-> "ThingDef", content |-> InhContents[c]]>>)
    ELSE DefsDoc("Core", <<[type |-> "ThingDef", content |-> InhContents[10]],
                           [type |-> "ThingDef", content |-> TwigContent]>>)

InhDocLists ==
    {[i \in 1..MaxInhDocs |-> InhDocAt(c[i])] :
        c \in {c \in [1..MaxInhDocs -> InhChoices] :
                 \A i \in 1..(MaxInhDocs - 1) : c[i] <= c[i + 1]}}

InitInherit ==
    /\ docs \in InhDocLists
    /\ pending = DOMAIN docs
    /\ data = EmptyData
    /\ phase = "ingest"
    /\ prev = EmptyData
    /\ scans = AllListed
    /\ reply = NoReply
    /\ running = Idle

NextInherit ==
    \/ \E i \in 1..MaxInhDocs : ProcessXMLFile(i)
    \/ ApplyPatches
    \/ ResolveInheritance

SpecInherit == InitInherit /\ [][NextInherit]_vars

(***************************************************************************)
(* Inheritance claims                                                      *)
(***************************************************************************)
\* the declared parent of the definition id is a known definition
ParentKnown(d, id) ==
    /\ d.objs[id].parent # NoParent
    /\ LookupDef(d, d.objs[id].parent) # NotFound

\* the content of the declared parent of id
ParentContentOf(d, id) == d.objs[LookupDef(d, d.objs[id].parent)].content

IsPlain(v) == IsArr(v) \/ (IsScalar(v) /\ v # Sentinel)

\* C5: after inheritance resolution, for a definition whose declared
\* parent exists and for every top-level key: a key only the parent
\* defines has the parent's value in the child, unchanged, a sequence kept
\* whole; a key the child defines with a scalar or a sequence has the
\* child's value, a child sequence replacing the parent's wholesale.
C5_ChildOverridesParentFillsIn ==
    phase = "resolved" =>
        \A id \in Holders :
            ParentKnown(data, id) =>
                LET before == prev.objs[id].content
                    parent == ParentContentOf(data, id)
                    after == data.objs[id].content
                IN  /\ \A key \in Keys(parent) \ Keys(before) :
                        Get(after, key) = Get(parent, key)
                    /\ \A key \in Keys(before) :
                        IsPlain(Get(before, key)) => Get(after, key) = Get(before, key)

\* C5 witness: resolution is over; one child of Base overrides the scalar
\* hp and has received Base's sequence tags whole, another child of Base
\* has replaced tags by its own one-element sequence.
C5_Witness ==
    /\ phase = "resolved"
    /\ \E b, c, l \in Holders :
        /\ data.objs[b].defName = "Base" /\ data.objs[b].parent = NoParent
        /\ data.objs[c].parent = "Base" /\ data.objs[l].parent = "Base"
        /\ Get(data.objs[b].content, "hp") = Scalar("10")
        /\ Get(data.objs[c].content, "hp") = Scalar("20")
        /\ "tags" \notin Keys(prev.objs[c].content)
        /\ Get(data.objs[c].content, "tags") = Strs(<<"x", "y">>)
        /\ Get(data.objs[l].content, "tags") = Strs(<<"z">>)

\* C10: inheritance resolution leaves a definition that declares no
\* parent, or whose declared parent is not a known concrete or abstract
\* definition, with the content it had before, and records no conflict.
C10_NoParentNoChange ==
    phase \in {"resolved", "crashed"} =>
        /\ \A id \in Holders :
            ~ParentKnown(data, id) =>
                /\ data.objs[id].content = prev.objs[id].content
                /\ data.objs[id].conflicts = prev.objs[id].conflicts
        /\ data.conflicts = prev.conflicts

\* C10 witness: resolution is over for a definition without a parent and
\* for one whose declared parent is unknown and whose content holds the
\* deletion sentinel.
C10_Witness ==
    /\ phase = "resolved"
    /\ \E b, c \in Holders :
        /\ data.objs[b].parent = NoParent
        /\ data.objs[c].parent = "Missing"
        /\ Get(data.objs[c].content, "hp") = Sentinel

(***************************************************************************)
(* Cycle detection: ConflictDetector.detectCircularDependencies            *)
(***************************************************************************)
\* path.indexOf(defName), counted from 1; 0 for -1
IndexOf(path, defName) ==
    IF \E i \in 1..Len(path) : path[i] = defName
    THEN CHOOSE i \in 1..Len(path) :
            /\ path[i] = defName
            /\ \A j \in 1..(i - 1) : path[j] # defName
    ELSE 0

\* path.slice(cycleStart).concat(defName); slice(-1) is the last element
CycleOf(path, defName) ==
    LET i == IndexOf(path, defName)
        from == IF i # 0 THEN i ELSE IF path = <<>> THEN 1 ELSE Len(path)
    IN  Append(SubSeq(path, from, Len(path)), defName)

\* description is 'Circular dependency: ' followed by the names of the
\* cycle joined by ' -> '; the names are kept as a sequence
CircularConflict(d, defName, cycle) ==
    [type |-> "circular_dependency",
     severity |-> "error",
     defName |-> defName,
     mods |-> <<d.objs[d.defs[defName]].mod>>,
     description |-> cycle,
     resolution |-> "Review and break the dependency cycle"]

\* the test for a visited name made before the test for the stack
OnStackUnvisited(st, defName) ==
    defName \in st.recursionStack /\ defName \notin st.visited

\* recursionStack.has(defName)
OnStack(st, defName) == defName \in st.recursionStack

\* The closure hasCycle.  st = [d, visited, recursionStack, found]; found
\* is the value the call returned.  A call that returns true leaves its
\* name in recursionStack.
RECURSIVE hasCycle(_, _, _)

\* the loop over def.outgoingRefs, from the i-th reference on
RECURSIVE AnyCycle(_, _, _, _)
AnyCycle(st, refs, i, path) ==
    IF i > Len(refs) THEN [st EXCEPT !.found = FALSE]
    ELSE LET r == hasCycle(st, refs[i].toDef, path)
         IN  IF r.found THEN r ELSE AnyCycle(r, refs, i + 1, path)

hasCycle(st, defName, path) ==
    IF OnStack(st, defName)
    THEN [st EXCEPT !.found = TRUE,
                    !.d.conflicts =
                        IF defName \in DOMAIN st.d.defs
                        THEN Append(@, CircularConflict(st.d, defName, CycleOf(path, defName)))
                        ELSE @]
    ELSE IF defName \in st.visited THEN [st EXCEPT !.found = FALSE]
    ELSE
    LET st1 == [st EXCEPT !.visited = @ \cup {defName},
                          !.recursionStack = @ \cup {defName},
                          !.found = FALSE]
        r == IF defName \in DOMAIN st.d.defs
             THEN AnyCycle(st1, st.d.objs[st.d.defs[defName]].outgoingRefs, 1,
                           Append(path, defName))
             ELSE st1
    IN  IF r.found THEN r
        ELSE [r EXCEPT !.recursionStack = @ \ {defName}]

\* for (const defName of data.defs.keys()) if (!visited.has(defName)) hasCycle(defName)
RECURSIVE DetectFrom(_, _)
DetectFrom(st, i) ==
    IF i > Len(st.d.defsKeys) THEN st
    ELSE DetectFrom(IF st.d.defsKeys[i] \notin st.visited
                    THEN hasCycle(st, st.d.defsKeys[i], <<>>)
                    ELSE st, i + 1)

detectCircularDependencies(d) ==
    DetectFrom([d |-> d, visited |-> {}, recursionStack |-> {}, found |-> FALSE], 1).d

\* RimWorldDefsServer.start: the conflict detection pass
DetectCircularDependencies ==
    /\ phase = "referenced"
    /\ data' = detectCircularDependencies(data)
    /\ phase' = "detected"
    /\ prev' = data
    /\ UNCHANGED <<docs, pending, scans, reply, running>>

(***************************************************************************)
(* Cycle detection over sets of definitions with given reference edges     *)
(***************************************************************************)
MaxRefs == 2

NoRepeat(q) == \A i, j \in 1..Len(q) : i # j => q[i] # q[j]

\* the orders in which data.defs may hold one to three definitions
KeyOrders ==
    {q \in UNION {[1..k -> InhNames] : k \in 1..Cardinality(InhNames)} : NoRepeat(q)}

\* the targets of one definition's outgoing references, in the order of
\* the Set; a target that is not registered is a dangling reference
RefLists == {q \in UNION {[1..k -> InhNames] : k \in 0..MaxRefs} : NoRepeat(q)}

RefsTo(name, targets) ==
    [i \in 1..Len(targets) |->
        [fromDef |-> name, toDef |-> targets[i], referenceType |-> "other", path |-> "li"]]

\* the registry holding the definitions keys, in this order, each with the
\* outgoing references to targets[its name]
RECURSIVE GraphData(_, _, _)
GraphData(keys, targets, i) ==
    IF i = 0 THEN EmptyData
    ELSE
    LET d == GraphData(keys, targets, i - 1)
        el == ConcreteElem("ThingDef", keys[i])
        r == RegisterDef(d, <<0, i>>, "Core", el)
    IN  [r EXCEPT !.objs[<<0, i>>].outgoingRefs = RefsTo(keys[i], targets[keys[i]])]

InitCycle ==
    /\ docs = <<>>
    /\ pending = {}
    /\ \E keys \in KeyOrders : \E targets \in [SeqToSet(keys) -> RefLists] :
        data = GraphData(keys, targets, Len(keys))
    /\ phase = "referenced"
    /\ prev = EmptyData
    /\ scans = AllListed
    /\ reply = NoReply
    /\ running = Idle

NextCycle == DetectCircularDependencies

SpecCycle == InitCycle /\ [][NextCycle]_vars

(***************************************************************************)
(* Cycle detection claims                                                  *)
(***************************************************************************)
\* the target of the only outgoing reference of the definition named n
Succ(d, n) == d.objs[d.defs[n]].outgoingRefs[1].toDef

RECURSIVE Orbit(_, _, _)
Orbit(d, n, k) == IF k = 0 THEN {} ELSE {n} \cup Orbit(d, Succ(d, n), k - 1)

\* the outgoing references of the definitions of d form one simple cycle
\* through all of them
IsSimpleCycle(d) ==
    /\ DOMAIN d.defs # {}
    /\ \A n \in DOMAIN d.defs :
        /\ Len(d.objs[d.defs[n]].outgoingRefs) = 1
        /\ Succ(d, n) \in DOMAIN d.defs
    /\ \A n \in DOMAIN d.defs : Orbit(d, n, Cardinality(DOMAIN d.defs)) = DOMAIN d.defs

CircularConflicts(d) ==
    {k \in 1..Len(d.conflicts) : d.conflicts[k].type = "circular_dependency"}

\* C4: when the outgoing references of the definitions form exactly one
\* simple cycle through all of them, one detection pass records exactly
\* one circular-dependency conflict and its description names every
\* definition of the cycle, whichever definition the traversal starts from.
C4_OneConflictNamesWholeCycle ==
    (phase = "detected" /\ IsSimpleCycle(prev)) =>
        /\ Cardinality(CircularConflicts(data)) = 1
        /\ \A k \in CircularConflicts(data) :
            SeqToSet(data.conflicts[k].description) = DOMAIN prev.defs

\* C4 witness: detection is over for three definitions on one cycle, the
\* traversal having started from Leaf.
C4_Witness ==
    /\ phase = "detected"
    /\ IsSimpleCycle(prev)
    /\ Len(prev.defsKeys) = 3
    /\ prev.defsKeys[1] = "Leaf"
    /\ CircularConflicts(data) # {}

\* every key of the tree v carries the deletion sentinel
AllSentinel(v) == IsTree(v) /\ Keys(v) # {} /\ \A k \in Keys(v) : v.t[k] = Sentinel

\* C11: merging a child tree in which every key carries the deletion
\* sentinel against a parent tree gives a tree whose keys are the parent's
\* keys without the child's, each bound to the parent's value; a sentinel
\* under a key the parent lacks removes nothing and adds nothing.
C11_SentinelsRemoveExactlyTheirKeys ==
    phase = "resolved" =>
        \A id \in Holders :
            ParentKnown(data, id) =>
                \A key \in Keys(prev.objs[id].content) :
                    LET child == Get(prev.objs[id].content, key)
                        parent == Get(ParentContentOf(data, id), key)
                        merged == Get(data.objs[id].content, key)
                    IN  (AllSentinel(child) /\ IsTree(parent)) =>
                            /\ IsTree(merged)
                            /\ Keys(merged) = Keys(parent) \ Keys(child)
                            /\ \A k \in Keys(merged) : Get(merged, k) = Get(parent, k)

\* C11 witness: a child whose stats carry the sentinel under dmg, which
\* the parent's stats have, and under rng, which they lack, was merged
\* with the parent: stats is left with spd alone.
C11_Witness ==
    /\ phase = "resolved"
    /\ \E id \in Holders :
        /\ ParentKnown(data, id)
        /\ AllSentinel(Get(prev.objs[id].content, "stats"))
        /\ Keys(Get(prev.objs[id].content, "stats")) = {"dmg", "rng"}
        /\ Keys(Get(ParentContentOf(data, id), "stats")) = {"dmg", "spd"}
        /\ Keys(Get(data.objs[id].content, "stats")) = {"spd"}

(***************************************************************************)
(* Reference extraction: ReferenceAnalyzer.extractReferences,              *)
(* scanObjectForReferences, addReference.  Object.entries visits the keys  *)
(* of an object in the order the document gave them; content trees keep no *)
(* key order, so the order in which the references of one definition are   *)
(* found is any order.                                                     *)
(***************************************************************************)
\* the type of the first of referencePatterns whose expression matches key,
\* for the keys the documents use
RefTypeOf(key) ==
    CASE key = "thingDef" -> "thingDef"
      [] key = "recipe" -> "recipe"
      [] key = "building" -> "building"
      [] key = "weapon" -> "weapon"
      [] OTHER -> "other"

\* path ? `${path}.${key}` : key
ChildPath(path, key) == IF path = "" THEN key ELSE path \o "." \o key

\* `${currentPath}[${i}]`, i counted from 0
IndexPath(path, i) == path \o "[" \o ToString(i - 1) \o "]"

\* data.defs.has(name) || data.abstractDefs.has(name)
IsKnown(d, name) == name \in DOMAIN d.defs \/ name \in DOMAIN d.abstractDefs

NewRef(fromDef, toDef, type, path) ==
    [fromDef |-> fromDef, toDef |-> toDef, referenceType |-> type, path |-> path]

\* the references scanObjectForReferences(obj, fromDef, path) adds
RECURSIVE ScanRefs(_, _, _, _)

\* the references one entry [key, value] of an object gives
RECURSIVE ValueRefs(_, _, _, _, _)
ValueRefs(d, fromDef, key, value, currentPath) ==
    IF IsScalar(value)
    THEN IF value.s # "" /\ IsKnown(d, value.s)
         THEN {NewRef(fromDef, value.s, RefTypeOf(key), currentPath)}
         ELSE {}
    ELSE IF IsArr(value)
    THEN UNION {LET item == value.a[i]
                IN  IF IsScalar(item)
                    THEN IF IsKnown(d, item.s)
                         THEN {NewRef(fromDef, item.s, "other", IndexPath(currentPath, i))}
                         ELSE {}
                    ELSE ScanRefs(d, item, fromDef, IndexPath(currentPath, i))
                : i \in 1..Len(value.a)}
    ELSE IF IsTree(value) /\ key # "li"
    THEN ScanRefs(d, value, fromDef, currentPath)
    ELSE {}

ScanRefs(d, obj, fromDef, path) ==
    IF ~IsTree(obj) THEN {}
    ELSE UNION {ValueRefs(d, fromDef, key, obj.t[key], ChildPath(path, key)) : key \in Keys(obj)}

\* the edge is recorded on its source and in the index only
addReferenceOutgoingOnly(d, ref) ==
    LET d1 == IF ref.fromDef \in DOMAIN d.defs
              THEN [d EXCEPT !.objs[d.defs[ref.fromDef]].outgoingRefs = Append(@, ref)]
              ELSE d
        list == IF ref.fromDef \in DOMAIN d.referenceGraph
                THEN d.referenceGraph[ref.fromDef] ELSE <<>>
    IN  [d1 EXCEPT !.referenceGraph = Put(@, ref.fromDef, Append(list, ref))]

\* ReferenceAnalyzer.addReference
addReference(d, ref) ==
    LET target == LookupDef(d, ref.toDef)
        d1 == IF ref.fromDef \in DOMAIN d.defs
              THEN [d EXCEPT !.objs[d.defs[ref.fromDef]].outgoingRefs = Append(@, ref)]
              ELSE d
        d2 == IF target # NotFound
              THEN [d1 EXCEPT !.objs[target].incomingRefs = Append(@, ref)]
              ELSE d1
        list == IF ref.fromDef \in DOMAIN d.referenceGraph
                THEN d.referenceGraph[ref.fromDef] ELSE <<>>
    IN  [d2 EXCEPT !.referenceGraph = Put(@, ref.fromDef, Append(list, ref))]

RECURSIVE AddAll(_, _, _)
AddAll(d, refs, i) ==
    IF i > Len(refs) THEN d ELSE AddAll(addReference(d, refs[i]), refs, i + 1)

\* the references of the definition named defName: the parent edge first,
\* then the references of its content in the order found
RefsOfDef(d, defName, found) ==
    LET def == d.objs[d.defs[defName]]
    IN  (IF def.parent # NoParent
         THEN <<NewRef(def.defName, def.parent, "parent", "@ParentName")>>
         ELSE <<>>) \o found

\* for (const def of data.defs.values()), from the i-th on; order[n] is
\* the order in which the references of n's content are found
RECURSIVE ExtractFrom(_, _, _)
ExtractFrom(d, order, i) ==
    IF i > Len(d.defsKeys) THEN d
    ELSE ExtractFrom(AddAll(d, RefsOfDef(d, d.defsKeys[i], order[d.defsKeys[i]]), 1),
                     order, i + 1)

extractReferences(d, order) == ExtractFrom(d, order, 1)

\* the sequences that list every element of S once
Perms(S) ==
    {q \in [1..Cardinality(S) -> S] : \A i, j \in 1..Cardinality(S) : i # j => q[i] # q[j]}

\* the orders in which the references of every definition may be found
RefOrders(d) ==
    LET found(n) == ScanRefs(d, d.objs[d.defs[n]].content, n, "")
        all == UNION {Perms(found(n)) : n \in DOMAIN d.defs}
    IN  {order \in [DOMAIN d.defs -> all] : \A n \in DOMAIN d.defs : order[n] \in Perms(found(n))}

\* RimWorldDefsServer.start: the reference pass
ExtractReferences ==
    /\ phase = "resolved"
    /\ \E order \in RefOrders(data) : data' = extractReferences(data, order)
    /\ phase' = "referenced"
    /\ prev' = data
    /\ UNCHANGED <<docs, pending, scans, reply, running>>

\* RimWorldDefsServer.start: server.connect(transport); requests are
\* served from here on
Connect ==
    /\ phase = "detected"
    /\ phase' = "serving"
    /\ UNCHANGED <<docs, pending, data, prev, scans, reply, running>>

\* the answer of ToolHandlers.handleGetDef
GetDefReply(d, name) ==
    LET id == handleGetDef(d, name)
    IN  IF id = NotFound THEN [error |-> name]
        ELSE [defName |-> d.objs[id].defName,
              type |-> d.objs[id].type,
              mod |-> d.objs[id].mod,
              abstract |-> d.objs[id].abstract,
              parent |-> d.objs[id].parent,
              content |-> d.objs[id].content,
              originalContent |-> d.objs[id].originalContent,
              outgoingRefs |-> d.objs[id].outgoingRefs,
              incomingRefs |-> d.objs[id].incomingRefs,
              patchHistory |-> [i \in 1..Len(d.objs[id].patchHistory) |->
                                  LET P == d.patchObjs[d.objs[id].patchHistory[i]]
                                  IN  [mod |-> P.mod, operation |-> P.operation,
                                       xpath |-> P.xpath, success |-> P.success]],
              conflicts |-> d.objs[id].conflicts]

\* a getDef request for name is answered
HandleGetDef(name) ==
    /\ phase = "serving"
    /\ reply' = GetDefReply(data, name)
    /\ UNCHANGED <<docs, pending, data, phase, prev, scans, running>>

(***************************************************************************)
(* The content scan: RimWorldDefsServer.start, CombinedScanner             *)
(* scanModContent and scanDirectory.  A promise is started by the call     *)
(* that creates it: modScanTasks and xmlTasks are built by map, so every   *)
(* scanModContent and every processXMLFile of a directory has been called  *)
(* before processInBatches awaits the first batch.  processInBatches only  *)
(* waits for promises that run already; it starts nothing.                 *)
(***************************************************************************)
\* config.modConcurrency and config.xmlBatchSize of the runs
modConcurrency == 2

xmlBatchSize == 2

NoScans == [started |-> {}, probed |-> {}, listed |-> {}]

\* modScanTasks = mods.map(mod => scanModContent(mod, data)): every call
\* runs up to its first await, the probe of the Defs directory
StartScans ==
    /\ phase = "loaded"
    /\ phase' = "ingest"
    /\ scans' = [scans EXCEPT !.started = Mods]
    /\ UNCHANGED <<docs, pending, data, prev, reply, running>>

\* scanModContent(m): the probes of Defs and Patches have answered, and
\* scanDirectory was called for the directories that exist
ProbePaths(m) ==
    /\ phase = "ingest"
    /\ m \in scans.started \ scans.probed
    /\ scans' = [scans EXCEPT !.probed = @ \cup {m}]
    /\ UNCHANGED <<docs, pending, data, phase, prev, reply, running>>

\* scanDirectory: readdir has answered; xmlTasks = xmlFiles.map(...) calls
\* processXMLFile for every document of the directory, each call running
\* up to the await of its read
ListDirectory(m, k) ==
    /\ phase = "ingest"
    /\ m \in scans.probed
    /\ <<m, k>> \notin scans.listed
    /\ DocsIn(m, k) # {}
    /\ scans' = [scans EXCEPT !.listed = @ \cup {<<m, k>>}]
    /\ pending' = pending \cup DocsIn(m, k)
    /\ UNCHANGED <<docs, data, phase, prev, reply, running>>

(***************************************************************************)
(* Whole runs of RimWorldDefsServer.start                                  *)
(***************************************************************************)
MaxRunDocs == 3

\* Defs/ThingDef[defName="name"]/key
NameKeyXPath(name, key) ==
    XPath(0, <<Step("Defs", NoPred), Step("ThingDef", DefNamePred(name)), Step(key, NoPred)>>)

\* The documents of the runs: Core defines Base, Child (a child of Base)
\* and Leaf (its own parent); ModA defines Child again and adds a label to
\* Base; ModB replaces the hp of Base, or the hp of Child.
RunDocs ==
    << DefsDoc("Core", <<[type |-> "ThingDef", content |-> InhContents[1]]>>),
       DefsDoc("Core", <<[type |-> "ThingDef", content |-> InhContents[4]]>>),
       DefsDoc("Core", <<[type |-> "ThingDef", content |-> InhContents[11]]>>),
       DefsDoc("ModA", <<[type |-> "ThingDef", content |-> InhContents[5]]>>),
       PatchesDoc("ModA", <<PatchOp("PatchOperationAdd", NameKeyXPath("Base", "label"),
                                     Scalar("v1"))>>),
       PatchesDoc("ModB", <<PatchOp("PatchOperationReplace", NameKeyXPath("Base", "hp"),
                                     Scalar("v2"))>>),
       PatchesDoc("ModB", <<PatchOp("PatchOperationReplace", NameKeyXPath("Child", "hp"),
                                     Scalar("v2"))>>) >>

RunDocLists ==
    {[i \in 1..MaxRunDocs |-> RunDocs[c[i]]] :
        c \in {c \in [1..MaxRunDocs -> 1..Len(RunDocs)] :
                 \A i \in 1..(MaxRunDocs - 1) : c[i] <= c[i + 1]}}

\* the server after construction and loadMods, before the scan
InitRun ==
    /\ docs \in RunDocLists
    /\ pending = {}
    /\ data = EmptyData
    /\ phase = "loaded"
    /\ prev = EmptyData
    /\ scans = NoScans
    /\ reply = NoReply
    /\ running = Idle

\* the scan part of a run
NextScan ==
    \/ StartScans
    \/ \E m \in Mods : ProbePaths(m)
    \/ \E m \in Mods : \E k \in Kinds : ListDirectory(m, k)
    \/ \E i \in 1..MaxRunDocs : ProcessXMLFile(i)

SpecScan == InitRun /\ [][NextScan]_vars

\* a whole run: the scan, the four passes, then requests
NextRun ==
    \/ NextScan
    \/ ApplyPatches
    \/ ResolveInheritance
    \/ ExtractReferences
    \/ DetectCircularDependencies
    \/ Connect
    \/ \E name \in InhNames : HandleGetDef(name)

SpecRun == InitRun /\ [][NextRun]_vars

(***************************************************************************)
(* Run claims                                                              *)
(***************************************************************************)
\* the sources whose scanModContent was called and has not settled
ScansInFlight == {m \in scans.started : ~ScanFinished(m)}

\* C12: at every moment of ingestion at most modConcurrency sources have a
\* content scan that has started and not finished, and in one directory of
\* one source at most xmlBatchSize documents have a processing that has
\* started and not finished.
C12_FanOutBounded ==
    phase = "ingest" =>
        /\ Cardinality(ScansInFlight) <= modConcurrency
        /\ \A m \in Mods : \A k \in Kinds :
            Cardinality(pending \cap DocsIn(m, k)) <= xmlBatchSize

\* what the passes leave behind in d
Ingested(d) == <<DOMAIN d.objs, DOMAIN d.patchObjs, d.defs, Len(d.globalPatches)>>

PatchMarks(d) ==
    <<{<<p, d.patchObjs[p].success, d.patchObjs[p].appliedTo>> :
          p \in {p \in DOMAIN d.patchObjs :
                    d.patchObjs[p].success # "unset" \/ d.patchObjs[p].appliedTo # {}}},
      {<<id, d.objs[id].patchHistory, d.objs[id].originalContent>> :
          id \in {id \in DOMAIN d.objs :
                     d.objs[id].patchHistory # <<>> \/ ~IsUndef(d.objs[id].originalContent)}}>>

Contents(d) == [id \in DOMAIN d.objs |-> d.objs[id].content]

Edges(d) ==
    <<{<<id, d.objs[id].outgoingRefs, d.objs[id].incomingRefs>> :
          id \in {id \in DOMAIN d.objs :
                     d.objs[id].outgoingRefs # <<>> \/ d.objs[id].incomingRefs # <<>>}},
      d.referenceGraph>>

Circular(d) == {k \in 1..Len(d.conflicts) : d.conflicts[k].type = "circular_dependency"}

\* the order of the phases
PhaseSteps ==
    {<<"loaded", "ingest">>, <<"ingest", "patched">>, <<"patched", "resolved">>,
     <<"patched", "crashed">>, <<"resolved", "referenced">>,
     <<"referenced", "detected">>, <<"detected", "serving">>}

InOrderStep ==
    /\ phase' # phase => <<phase, phase'>> \in PhaseSteps
    /\ Ingested(data') # Ingested(data) => (phase = "ingest" /\ phase' = "ingest")
    /\ PatchMarks(data') # PatchMarks(data) =>
        /\ phase = "ingest" /\ phase' = "patched"
        /\ pending = {}
        /\ scans.probed = Mods
        /\ \A m \in Mods : \A k \in Kinds : DocsIn(m, k) # {} => <<m, k>> \in scans.listed
    /\ (Contents(data') # Contents(data) /\ Ingested(data') = Ingested(data)) =>
        \/ phase = "ingest" /\ phase' = "patched"
        \/ phase = "patched" /\ PatchMarks(data') = PatchMarks(data)
    /\ Edges(data') # Edges(data) => (phase = "resolved" /\ phase' = "referenced")
    /\ Circular(data') # Circular(data) => (phase = "referenced" /\ phase' = "detected")
    /\ reply' # reply => phase = "serving"

\* C13: in every run the phases follow one another in one order, each at
\* most once: no patch operation is applied before every ingestion task of
\* every source has finished, no inheritance merge happens before the patch
\* pass is over, no reference edge is recorded before inheritance resolution
\* has finished, cycle detection follows reference extraction, and no
\* request is answered before all of these have finished.
C13_PhasesInOrder == [][InOrderStep]_vars

\* C13 witness: a request was answered in a run that applied a patch to
\* Base, merged Base into Child and recorded reference edges.
C13_Witness ==
    /\ phase = "serving"
    /\ reply # NoReply
    /\ \E b, c \in Holders :
        /\ data.objs[b].patchHistory # <<>>
        /\ data.objs[c].parent = "Base"
        /\ "tags" \in Keys(data.objs[c].content)
        /\ data.objs[c].outgoingRefs # <<>>

(***************************************************************************)
(* The patch pass over documents with several operations, conditions,      *)
(* targets that are not registered and mutations that throw                *)
(***************************************************************************)
MaxApplyDocs == 2

\* an operation with <mods> and <nomods> lists
CondOp(class, x, value, mods, nomods) ==
    [class |-> class, xpath |-> x, value |-> value, mods |-> mods, nomods |-> nomods]

\* Defs/ThingDef[defName="Foo"]/stat/sub
FooSubXPath ==
    XPath(0, <<Step("Defs", NoPred), Step("ThingDef", DefNamePred("Foo")),
               Step("stat", NoPred), Step("sub", NoPred)>>)

\* Defs/ThingDef/stat/sub
TypeSubXPath ==
    XPath(0, <<Step("Defs", NoPred), Step("ThingDef", NoPred),
               Step("stat", NoPred), Step("sub", NoPred)>>)

\* The operation lists of the patch documents.  Adding stat/sub after stat
\* was bound to a string throws; Gone is no definition; ModX is no source
\* and ModA is loaded, so the conditions of the sixth and seventh list are
\* unmet; Defs/ThingDef/label selects no definition by name and matches
\* both Foo and Bar, and so does Defs/ThingDef/stat/sub, which the last
\* list adds after binding the stat of Bar alone to a string.
ApplyOpLists ==
    << <<PatchOp("PatchOperationAdd", FooKeyXPath("stat"), Scalar("v1"))>>,
       <<PatchOp("PatchOperationAdd", FooKeyXPath("stat"), Scalar("v2"))>>,
       <<PatchOp("PatchOperationAdd", FooKeyXPath("stat"), Scalar("v1")),
         PatchOp("PatchOperationAdd", FooSubXPath, Scalar("v2"))>>,
       <<PatchOp("PatchOperationAdd", FooSubXPath, Scalar("v1"))>>,
       <<PatchOp("PatchOperationReplace", NameKeyXPath("Gone", "label"), Scalar("v1"))>>,
       <<CondOp("PatchOperationAdd", FooKeyXPath("stat"), Scalar("v1"), {"ModX"}, {}),
         PatchOp("PatchOperationRemove", FooKeyXPath("label"), Undef)>>,
       <<CondOp("PatchOperationReplace", FooKeyXPath("hp"), Scalar("v2"), {}, {"ModA"})>>,
       <<PatchOp("PatchOperationAdd", FooKeyXPath("stat"), Scalar("v1")),
         PatchOp("PatchOperationAdd", FooKeyXPath("stat"), Scalar("v2"))>>,
       <<PatchOp("PatchOperationAdd", TypeKeyXPath("label"), Scalar("v1"))>>,
       <<PatchOp("PatchOperationRemove", FooKeyXPath("label"), Undef)>>,
       <<PatchOp("PatchOperationAdd", NameKeyXPath("Bar", "stat"), Scalar("v1")),
         PatchOp("PatchOperationAdd", TypeSubXPath, Scalar("v2"))>> >>

ApplyChoices == 1..(Len(PatchMods) * Len(ApplyOpLists))

ApplyDocAt(c) ==
    PatchesDoc(PatchMods[((c - 1) \div Len(ApplyOpLists)) + 1],
               ApplyOpLists[((c - 1) % Len(ApplyOpLists)) + 1])

\* document 1 holds Core's definitions, the others are patch documents
ApplyDocLists ==
    {[i \in 1..(MaxApplyDocs + 1) |-> IF i = 1 THEN CoreDefsDoc ELSE ApplyDocAt(c[i - 1])] :
        c \in {c \in [1..MaxApplyDocs -> ApplyChoices] :
                 \A i \in 1..(MaxApplyDocs - 1) : c[i] <= c[i + 1]}}

InitApply ==
    /\ docs \in ApplyDocLists
    /\ pending = DOMAIN docs
    /\ data = EmptyData
    /\ phase = "ingest"
    /\ prev = EmptyData
    /\ scans = AllListed
    /\ reply = NoReply
    /\ running = Idle

NextApply ==
    \/ \E i \in 1..(MaxApplyDocs + 1) : ProcessXMLFile(i)
    \/ ApplyPatches

SpecApply == InitApply /\ [][NextApply]_vars

(***************************************************************************)
(* Application claims                                                      *)
(***************************************************************************)
\* the rank of the source of the operation p and its declared order
RankOf(p) == loadOrder[data.patchObjs[p].mod]

OrderOf(p) == data.patchObjs[p].order

\* a may be applied before b
MayPrecede(a, b) ==
    \/ RankOf(a) < RankOf(b)
    \/ RankOf(a) = RankOf(b) /\ OrderOf(a) <= OrderOf(b)

\* C14: in the application pass, whenever an operation a is applied before
\* an operation b, the rank of a's source is lower than that of b's, or
\* the ranks are equal and the declared order of a is at most that of b.
\* The pass applies the operations in the order of the sorted list, and
\* the history of a definition lists them in the order of application.
C14_AppliedInRankThenOrder ==
    phase = "patched" =>
        /\ \A i, j \in 1..Len(data.globalPatches) :
            i < j => MayPrecede(data.globalPatches[i], data.globalPatches[j])
        /\ \A id \in DOMAIN data.objs :
            \A i, j \in 1..Len(data.objs[id].patchHistory) :
                i < j => MayPrecede(data.objs[id].patchHistory[i], data.objs[id].patchHistory[j])

\* C14 witness: the pass is over; the two documents of one source were
\* read in the order opposite to their numbers and their operations were
\* applied to Foo interleaved by declared order.
C14_Witness ==
    /\ phase = "patched"
    /\ \E id \in DOMAIN data.objs :
        LET h == data.objs[id].patchHistory
        IN  /\ Len(h) >= 3
            /\ RankOf(h[1]) = RankOf(h[2]) /\ RankOf(h[2]) = RankOf(h[3])
            /\ h[1][1] > h[2][1]
            /\ h[3][1] = h[1][1]
            /\ OrderOf(h[1]) = 0 /\ OrderOf(h[2]) = 0 /\ OrderOf(h[3]) = 1

\* the applicability condition of the operation P is unmet
Unmet(P) ==
    \/ \E m \in P.conditions.modLoaded : m \notin Mods
    \/ \E m \in P.conditions.modNotLoaded : m \in Mods

UnmetIn(d) == {p \in DOMAIN d.patchObjs : Unmet(d.patchObjs[p])}

\* d without the operations of S
WithoutPatches(d, S) ==
    [d EXCEPT !.globalPatches = SelectSeq(@, LAMBDA p : p \notin S),
              !.patchObjs = [p \in DOMAIN @ \ S |-> @[p]]]

\* C15: an operation whose applicability condition is unmet changes no
\* definition's content, before-snapshot or patch history, adds nothing to
\* its applied-to set, records no conflict and keeps its result
\* unresolved: the pass leaves everything else as the pass without the
\* operation leaves it.
C15_UnmetOperationChangesNothing ==
    phase = "patched" =>
        /\ \A p \in UnmetIn(data) :
            /\ data.patchObjs[p].success = "unset"
            /\ data.patchObjs[p].appliedTo = {}
            /\ \A id \in DOMAIN data.objs : p \notin SeqToSet(data.objs[id].patchHistory)
        /\ WithoutPatches(data, UnmetIn(data)) = applyPatches(WithoutPatches(prev, UnmetIn(prev)))

\* C15 witness: the pass is over with an operation with an unmet condition
\* and, from the same document, an operation that was applied.
C15_Witness ==
    /\ phase = "patched"
    /\ \E p \in UnmetIn(data) : \E q \in DOMAIN data.patchObjs \ UnmetIn(data) :
        /\ p[1] = q[1]
        /\ data.patchObjs[q].appliedTo # {}

\* the incompatible-patch conflicts recorded for the operation P
IncompatibleConflictsOf(P) ==
    {k \in 1..Len(data.conflicts) :
        /\ data.conflicts[k].type = "incompatible_patch"
        /\ data.conflicts[k].xpath = P.xpath
        /\ data.conflicts[k].mods = <<P.mod>>}

FailedPatches == {p \in DOMAIN data.patchObjs : data.patchObjs[p].success = "false"}

\* C16: after the application pass an operation is in a definition's patch
\* history, and the definition in the operation's applied-to set, only if
\* the operation is marked succeeded; an operation marked failed is in no
\* patch history, carries the error message, and exactly one
\* incompatible-patch conflict of severity error is recorded for it.
C16_OnlySucceededInHistory ==
    phase = "patched" =>
        /\ \A p \in DOMAIN data.patchObjs :
            /\ \A id \in DOMAIN data.objs :
                p \in SeqToSet(data.objs[id].patchHistory) => data.patchObjs[p].success = "true"
            /\ data.patchObjs[p].appliedTo # {} => data.patchObjs[p].success = "true"
        /\ \A p \in FailedPatches :
            /\ data.patchObjs[p].error
            /\ IncompatibleConflictsOf(data.patchObjs[p]) # {}
            /\ \A k \in IncompatibleConflictsOf(data.patchObjs[p]) :
                data.conflicts[k].severity = "error"
        /\ Cardinality({k \in 1..Len(data.conflicts) :
                          data.conflicts[k].type = "incompatible_patch"})
            = Cardinality(FailedPatches)

\* the location expression of the operation P resolves to no definition
ResolvesToNone(P) ==
    IF P.targetDef # NoTarget THEN P.targetDef \notin DOMAIN data.defs
    ELSE \A n \in DOMAIN data.defs : ~matchesXPath(data.objs[data.defs[n]], P.xpath)

\* C17: an applicable operation whose location expression resolves to no
\* definition is marked failed and one incompatible-patch conflict is
\* recorded for it; no operation is marked succeeded with an empty
\* applied-to set.
C17_UnresolvedTargetFails ==
    phase = "patched" =>
        \A p \in DOMAIN data.patchObjs :
            LET P == data.patchObjs[p]
            IN  /\ (~Unmet(P) /\ ResolvesToNone(P)) =>
                    /\ P.success = "false"
                    /\ Cardinality(IncompatibleConflictsOf(P)) = 1
                /\ ~(P.success = "true" /\ P.appliedTo = {})

\* the successful operations sharing target, location expression and kind with p
GroupOf(p) ==
    {q \in DOMAIN data.patchObjs :
        /\ data.patchObjs[q].success = "true"
        /\ data.patchObjs[q].targetDef = data.patchObjs[p].targetDef
        /\ data.patchObjs[q].xpath = data.patchObjs[p].xpath
        /\ data.patchObjs[q].operation = data.patchObjs[p].operation}

SuccessfulGroups == {GroupOf(p) : p \in {q \in DOMAIN data.patchObjs : data.patchObjs[q].success = "true"}}

SourcesOf(group) == {data.patchObjs[q].mod : q \in group}

PatchCollisions == {k \in 1..Len(data.conflicts) : data.conflicts[k].type = "patch_collision"}

\* C18: a patch-collision conflict is recorded for a group of successful
\* operations sharing target, location expression and kind exactly when the
\* group holds more than one operation from more than one source; several
\* operations of one source at one location and kind produce no conflict.
C18_CollisionNeedsSeveralSources ==
    phase = "patched" =>
        /\ Cardinality(PatchCollisions)
            = Cardinality({g \in SuccessfulGroups : Cardinality(g) > 1 /\ Cardinality(SourcesOf(g)) > 1})
        /\ \A k \in PatchCollisions : Len(data.conflicts[k].mods) > 1

\* C19: inheritance resolution terminates for every finite set of
\* definitions, parent cycles included, and the run goes on to the reference
\* and conflict phases: no run ends in the start-up failure handler.
C19_ResolutionTerminates == phase # "crashed"

\* the definition named a holds an outgoing reference to b
IsEdge(d, a, b) ==
    /\ a \in DOMAIN d.defs
    /\ \E i \in 1..Len(d.objs[d.defs[a]].outgoingRefs) : d.objs[d.defs[a]].outgoingRefs[i].toDef = b

\* the names reached from the set s of names by one to k reference edges
RECURSIVE ReachedIn(_, _, _)
ReachedIn(d, s, k) ==
    IF k = 0 THEN {}
    ELSE LET next == {b \in InhNames : \E a \in s : IsEdge(d, a, b)}
         IN  next \cup ReachedIn(d, next, k - 1)

LiesOnCycle(d, n) == n \in ReachedIn(d, {n}, Cardinality(InhNames))

\* C20: every circular-dependency conflict of a detection pass names a
\* sequence d0, ..., dk with dk = d0 whose consecutive pairs are outgoing
\* reference edges, also with several cycles or with definitions pointing
\* into a cycle found earlier in the pass; a definition on no cycle is
\* never the repeated node of a conflict.
C20_ConflictNamesRealCycle ==
    phase = "detected" =>
        \A k \in CircularConflicts(data) :
            LET q == data.conflicts[k].description
            IN  /\ Len(q) >= 2
                /\ q[Len(q)] = q[1]
                /\ \A i \in 1..(Len(q) - 1) : IsEdge(prev, q[i], q[i + 1])
                /\ LiesOnCycle(prev, data.conflicts[k].defName)

\* one step keeps the snapshot rule for the definition object id
SnapshotStep(id) ==
    LET o == data.objs[id]
        n == data'.objs[id]
    IN  IF ~IsUndef(o.originalContent) THEN n.originalContent = o.originalContent
        ELSE IF n.patchHistory = <<>> THEN IsUndef(n.originalContent)
        ELSE n.originalContent = o.content

\* C21: the before-snapshot of a definition is absent until the first patch
\* operation touches it, is then the content as it was immediately before
\* that operation, and never changes afterwards, neither by later
\* operations on the definition nor by inheritance resolution.
C21_SnapshotSetOnce ==
    [][/\ \A id \in DOMAIN data.objs \cap DOMAIN data'.objs : SnapshotStep(id)
       /\ \A id \in DOMAIN data'.objs \ DOMAIN data.objs : IsUndef(data'.objs[id].originalContent)]_vars

\* C21 witness: inheritance has replaced the content of a patched child
\* whose snapshot is still the content it had before its patch.
C21_Witness ==
    /\ phase = "resolved"
    /\ \E id \in DOMAIN data.objs :
        /\ data.objs[id].parent # NoParent
        /\ data.objs[id].patchHistory # <<>>
        /\ ~IsUndef(data.objs[id].originalContent)
        /\ data.objs[id].content # prev.objs[id].content
        /\ data.objs[id].content # data.objs[id].originalContent

(***************************************************************************)
(* Registration step by step.  running maps each document whose            *)
(* processDefsFile has begun and not returned to its position: the element *)
(* it is at, the statement it is at, and the local variable existing.      *)
(* processDefsFile holds no await, so the call that has begun keeps the    *)
(* thread until it returns.                                                *)
(***************************************************************************)
NoHolder == <<>>

\* a thread that a call may be given at any statement of another call
MayRunAnywhere(i) == TRUE

\* the thread is free for document i, or is held by document i
MayRun(i) == \A j \in DOMAIN running : j = i

\* the position after element el of document i: the next element, or the
\* return of processXMLFile
AdvanceFrom(i, el) ==
    IF el < Len(docs[i].defs)
    THEN /\ running' = Put(running, i, [el |-> el + 1, pc |-> "read", existing |-> NoHolder])
         /\ UNCHANGED pending
    ELSE /\ running' = Drop(running, i)
         /\ pending' = pending \ {i}

\* the read of document i has completed and parsed.Defs is handed to
\* processDefsFile
BeginDefsFile(i) ==
    /\ phase = "ingest"
    /\ i \in pending
    /\ i \notin DOMAIN running
    /\ docs[i].kind = "defs"
    /\ MayRun(i)
    /\ IF docs[i].defs = <<>>
       THEN /\ pending' = pending \ {i}
            /\ UNCHANGED running
       ELSE /\ running' = Put(running, i, [el |-> 1, pc |-> "read", existing |-> NoHolder])
            /\ UNCHANGED pending
    /\ UNCHANGED <<docs, data, phase, prev, scans, reply>>

\* const existing = data.defs.get(defName), for an element with a name
ReadHolder(i) ==
    /\ i \in DOMAIN running
    /\ running[i].pc = "read"
    /\ MayRun(i)
    /\ LET el == docs[i].defs[running[i].el]
       IN  IF ~IsTree(el.content) \/ ~Truthy(DefNameOf(el.content))
           THEN /\ AdvanceFrom(i, running[i].el)
                /\ UNCHANGED prev
           ELSE LET defName == DefNameOf(el.content).s
                IN  /\ running' = [running EXCEPT ![i].pc = "install",
                                                  ![i].existing =
                                                      IF defName \in DOMAIN data.defs
                                                      THEN data.defs[defName] ELSE NoHolder]
                    /\ prev' = data
                    /\ UNCHANGED pending
    /\ UNCHANGED <<docs, data, phase, scans, reply>>

\* the override conflict, abstractDefs.set, the comparison of ranks and
\* data.defs.set
InstallHolder(i) ==
    /\ i \in DOMAIN running
    /\ running[i].pc = "install"
    /\ MayRun(i)
    /\ LET el == docs[i].defs[running[i].el]
           mod == docs[i].mod
           id == <<i, running[i].el>>
           defName == DefNameOf(el.content).s
           ex == running[i].existing
           override == ex # NoHolder /\ data.objs[ex].mod # mod
           conflict == OverrideConflict(defName, data.objs[ex].mod, mod)
           base == NewRimDef(mod, el.type, el.content)
           rimDef == IF override THEN [base EXCEPT !.conflicts = <<conflict>>] ELSE base
           d1 == [data EXCEPT !.objs = Put(@, id, rimDef),
                              !.conflicts = IF override THEN Append(@, conflict) ELSE @,
                              !.abstractDefs = IF rimDef.abstract THEN Put(@, defName, id) ELSE @]
       IN  IF ex = NoHolder \/ loadOrder[data.objs[ex].mod] < loadOrder[mod]
           THEN /\ data' = [d1 EXCEPT !.defs = Put(@, defName, id),
                                      !.defsKeys = IF defName \in DOMAIN data.defs THEN @
                                                   ELSE Append(@, defName)]
                /\ running' = [running EXCEPT ![i].pc = "index"]
                /\ UNCHANGED pending
           ELSE /\ data' = d1
                /\ AdvanceFrom(i, running[i].el)
    /\ UNCHANGED <<docs, phase, prev, scans, reply>>

\* the updates of data.defsByType and data.defsByMod
UpdateIndexes(i) ==
    /\ i \in DOMAIN running
    /\ running[i].pc = "index"
    /\ MayRun(i)
    /\ LET el == docs[i].defs[running[i].el]
           mod == docs[i].mod
           id == <<i, running[i].el>>
           defName == DefNameOf(el.content).s
           byType0 == IF el.type \in DOMAIN data.defsByType THEN data.defsByType
                      ELSE Put(data.defsByType, el.type, <<>>)
           d2 == [data EXCEPT !.defsByType = byType0]
           list == IF running[i].existing # NoHolder
                   THEN SpliceDisplaced(d2, el.type, defName)
                   ELSE d2.defsByType[el.type]
       IN  data' = [data EXCEPT !.defsByType = Put(byType0, el.type, Append(list, id)),
                                !.defsByMod = PushByMod(data, mod, id)]
    /\ AdvanceFrom(i, running[i].el)
    /\ UNCHANGED <<docs, phase, prev, scans, reply>>

MaxStepDocs == 2

StepDocLists ==
    {[i \in 1..MaxStepDocs |-> RegDocAt(c[i])] :
        c \in {c \in [1..MaxStepDocs -> RegChoices] :
                 \A i \in 1..(MaxStepDocs - 1) : c[i] <= c[i + 1]}}

InitSteps ==
    /\ docs \in StepDocLists
    /\ pending = 1..MaxStepDocs
    /\ data = EmptyData
    /\ phase = "ingest"
    /\ prev = EmptyData
    /\ scans = AllListed
    /\ reply = NoReply
    /\ running = Idle

NextSteps ==
    \E i \in 1..MaxStepDocs :
        \/ BeginDefsFile(i)
        \/ ReadHolder(i)
        \/ InstallHolder(i)
        \/ UpdateIndexes(i)

SpecSteps == InitSteps /\ [][NextSteps]_vars

(***************************************************************************)
(* Registration step claims                                                *)
(***************************************************************************)
\* document j has read the holder of a name and has not yet finished the
\* registration of that element
MidRegistration(j) == j \in DOMAIN running /\ running[j].pc \in {"install", "index"}

\* the step finishes the element document j is at
FinishesElement(j) ==
    \/ j \notin DOMAIN running'
    \/ running'[j].el > running[j].el

\* C22: under concurrent ingestion, between the moment a registration reads
\* the existing holder of a name and the moment it has installed the new
\* holder and updated the type and source indexes, no step of any other
\* registration is executed: every step taken meanwhile is a step of this
\* registration, and what it leaves behind is what the registration alone
\* makes of the data it read.
C22_RegistrationAtomic ==
    [][\A j \in DOMAIN running :
        MidRegistration(j) =>
            /\ DOMAIN running' \subseteq DOMAIN running
            /\ \A k \in DOMAIN running \ {j} : k \in DOMAIN running' /\ running'[k] = running[k]
            /\ FinishesElement(j) =>
                data' = RegisterDef(prev, <<j, running[j].el>>, docs[j].mod,
                                    docs[j].defs[running[j].el])]_vars

\* C22 witness: the second document is between its read of the holder and
\* its index updates, for a name the first document registered, while
\* nothing else has begun.
C22_Witness ==
    /\ 2 \in DOMAIN running
    /\ running[2].pc = "index"
    /\ running[2].existing # NoHolder
    /\ 1 \notin pending

(***************************************************************************)
(* Parent chain claims                                                     *)
(***************************************************************************)
\* the definition named c is the bottom of an acyclic chain c -> b -> a
\* of registered definitions, a declaring no parent
ChainTop(d, c) ==
    LET C == d.objs[d.defs[c]]
    IN  /\ C.parent \in DOMAIN d.defs
        /\ d.objs[d.defs[C.parent]].parent \in DOMAIN d.defs
        /\ d.objs[d.defs[d.objs[d.defs[C.parent]].parent]].parent = NoParent

\* C23: for an acyclic parent chain C -> B -> A the resolved content of C
\* is merge(resolved B, C's patched content) where resolved B is
\* merge(A's content, B's patched content), so a key defined only in A
\* appears in C; the result does not depend on the order of the visits, and
\* a definition's content is replaced by a merge at most once, also when it
\* is the parent of several children.
C23_ChainResolvedBottomUp ==
    phase = "resolved" =>
        \A c \in DOMAIN prev.defs :
            ChainTop(prev, c) =>
                LET C == prev.defs[c]
                    B == prev.defs[prev.objs[C].parent]
                    A == prev.defs[prev.objs[B].parent]
                    resolvedB == mergeWithParent(prev.objs[A].content, prev.objs[B].content)
                IN  /\ data.objs[A].content = prev.objs[A].content
                    /\ data.objs[B].content = resolvedB
                    /\ data.objs[C].content = mergeWithParent(resolvedB, prev.objs[C].content)
                    /\ \A k \in Keys(prev.objs[A].content) \
                                (Keys(prev.objs[B].content) \cup Keys(prev.objs[C].content)) :
                        Get(data.objs[C].content, k) = Get(prev.objs[A].content, k)

\* C23 witness: Child, a child of Base that deletes a key of Base, is the
\* parent of Leaf and Twig and was visited before Base and after Leaf.
C23_Witness ==
    /\ phase = "resolved"
    /\ {"Base", "Child", "Leaf", "Twig"} \subseteq DOMAIN prev.defs
    /\ ChainTop(prev, "Leaf")
    /\ ChainTop(prev, "Twig")
    /\ "hp" \in Keys(prev.objs[prev.defs["Base"]].content)
    /\ "hp" \notin Keys(data.objs[data.defs["Child"]].content)
    /\ "tags" \in Keys(data.objs[data.defs["Leaf"]].content)
    /\ prev.defsKeys = <<"Leaf", "Twig", "Child", "Base">>

(***************************************************************************)
(* Reference graph claims                                                  *)
(***************************************************************************)
\* every edge recorded anywhere
RecordedEdges ==
    UNION {SeqToSet(data.referenceGraph[n]) : n \in DOMAIN data.referenceGraph}
    \cup UNION {SeqToSet(data.objs[id].outgoingRefs) : id \in DOMAIN data.objs}
    \cup UNION {SeqToSet(data.objs[id].incomingRefs) : id \in DOMAIN data.objs}

\* C24: after reference extraction every recorded edge e from F to T is in
\* F's outgoing set and in the adjacency index under F; e is in T's
\* incoming set exactly when T is a known concrete or abstract definition;
\* and no incoming set holds an edge missing from the outgoing set of the
\* edge's source definition.
C24_EdgesRecordedSymmetrically ==
    phase \in {"referenced", "detected", "serving"} =>
        /\ \A e \in RecordedEdges :
            /\ e.fromDef \in DOMAIN data.defs
            /\ e \in SeqToSet(data.objs[data.defs[e.fromDef]].outgoingRefs)
            /\ e.fromDef \in DOMAIN data.referenceGraph
            /\ e \in SeqToSet(data.referenceGraph[e.fromDef])
            /\ IF IsKnown(data, e.toDef)
               THEN e \in SeqToSet(data.objs[LookupDef(data, e.toDef)].incomingRefs)
               ELSE \A id \in DOMAIN data.objs : e \notin SeqToSet(data.objs[id].incomingRefs)
        /\ \A id \in DOMAIN data.objs : \A e \in SeqToSet(data.objs[id].incomingRefs) :
            /\ e.toDef = data.objs[id].defName
            /\ e.fromDef \in DOMAIN data.defs
            /\ e \in SeqToSet(data.objs[data.defs[e.fromDef]].outgoingRefs)

\* C24 witness: Child names the parent Base that no document defines, and
\* holds its own name under defName: one dangling edge, one edge to a
\* known definition.
C24_Witness ==
    /\ phase = "referenced"
    /\ "Child" \in DOMAIN data.defs
    /\ "Base" \notin DOMAIN data.defs
    /\ \E e \in RecordedEdges : e.fromDef = "Child" /\ e.toDef = "Base"
    /\ \E e \in SeqToSet(data.objs[data.defs["Child"]].incomingRefs) : e.fromDef = "Child"

(***************************************************************************)
(* Add operations at an expression that ends in the array marker           *)
(***************************************************************************)
MaxAppendOps == 2

\* a ThingDef named tags: without the key tags, with a list of two
\* elements under it, with a single element under it
TagsContents ==
    << Obj(<<"defName">>, <<Scalar("tags")>>),
       Obj(<<"defName", "tags">>, <<Scalar("tags"), Obj(<<"li">>, <<Strs(<<"x", "y">>)>>)>>),
       Obj(<<"defName", "tags">>, <<Scalar("tags"), Obj(<<"li">>, <<Scalar("x")>>)>>) >>

\* tags[], tags[<newline>] and Defs/ThingDef[defName="tags"]/tags[]
AppendXPaths ==
    << XPath(0, <<Step("tags", Marker)>>),
       XPath(0, <<Step("tags", MarkerNL)>>),
       XPath(0, <<Step("Defs", NoPred), Step("ThingDef", DefNamePred("tags")),
                  Step("tags", Marker)>>) >>

\* one to MaxAppendOps add operations at the expression x
AppendOpLists(x) ==
    {[i \in 1..Len(vals) |-> PatchOp("PatchOperationAdd", x, vals[i])] :
        vals \in UNION {[1..k -> SeqToSet(PatchValues)] : k \in 1..MaxAppendOps}}

InitAppend ==
    /\ \E c \in 1..Len(TagsContents) : \E x \in SeqToSet(AppendXPaths) :
       \E m \in SeqToSet(PatchMods) : \E ops \in AppendOpLists(x) :
        docs = <<DefsDoc("Core", <<[type |-> "ThingDef", content |-> TagsContents[c]]>>),
                 PatchesDoc(m, ops)>>
    /\ pending = DOMAIN docs
    /\ data = EmptyData
    /\ phase = "ingest"
    /\ prev = EmptyData
    /\ scans = AllListed
    /\ reply = NoReply
    /\ running = Idle

NextAppend ==
    \/ \E i \in 1..2 : ProcessXMLFile(i)
    \/ ApplyPatches

SpecAppend == InitAppend /\ [][NextAppend]_vars

\* the ordered sequence under a key: the elements of its list, a single
\* element, or nothing when the key is absent
ElementsUnder(content, path) ==
    LET v == ValueAt(content, path)
        li == Get(v, "li")
    IN  IF ~IsTree(v) THEN <<>>
        ELSE IF IsArr(li) THEN li.a
        ELSE IF IsScalar(li) THEN <<li>>
        ELSE <<>>

\* the expression ends in the array marker
EndsInArrayMarker(x) == x.steps # <<>> /\ x.steps[Len(x.steps)].pred = Marker

\* C25: an add operation whose location expression ends in the array
\* marker appends its value to the ordered sequence under the addressed
\* key, creating the sequence if it is absent and keeping every existing
\* element; k such operations on one key lengthen the sequence by exactly
\* k, in application order.
C25_ArrayMarkerAppends ==
    phase = "patched" =>
        \A id \in Holders :
            LET h == data.objs[id].patchHistory
            IN  (/\ h # <<>>
                 /\ \A i \in 1..Len(h) :
                     /\ data.patchObjs[h[i]].operation = "Add"
                     /\ data.patchObjs[h[i]].success = "true"
                     /\ EndsInArrayMarker(data.patchObjs[h[i]].xpath)
                     /\ data.patchObjs[h[i]].xpath = data.patchObjs[h[1]].xpath)
                =>
                ElementsUnder(data.objs[id].content, AddressedPath(data.patchObjs[h[1]].xpath))
                    = ElementsUnder(prev.objs[id].content, AddressedPath(data.patchObjs[h[1]].xpath))
                        \o [i \in 1..Len(h) |-> data.patchObjs[h[i]].value]

(***************************************************************************)
(* Whole pipeline claims                                                   *)
(***************************************************************************)
\* the strings held anywhere in the value v
RECURSIVE StringsIn(_)
StringsIn(v) ==
    IF IsScalar(v) THEN {v.s}
    ELSE IF IsArr(v) THEN UNION {StringsIn(v.a[i]) : i \in 1..Len(v.a)}
    ELSE IF IsTree(v) THEN UNION {StringsIn(v.t[k]) : k \in Keys(v)}
    ELSE {}

\* no definition declares a parent and no content value is the name of a
\* different definition
Unrelated(d) ==
    \A n \in DOMAIN d.defs :
        /\ d.objs[d.defs[n]].parent = NoParent
        /\ StringsIn(d.objs[d.defs[n]].content) \cap (DOMAIN d.defs \ {n}) = {}

\* C28: for definitions of which none declares a parent and none holds
\* the name of a different definition as a content value, the full
\* pipeline records no circular-dependency conflict, although every
\* definition's content carries its own name.
C28_NoCycleAmongUnrelated ==
    (phase \in {"detected", "serving"} /\ DOMAIN data.defs # {} /\ Unrelated(data)) =>
        CircularConflicts(data) = {}

\* the data after the first n iterations of the loop of applyPatches
RECURSIVE ApplyUpTo(_, _)
ApplyUpTo(d, n) ==
    IF n = 0 THEN d ELSE ApplyOne(ApplyUpTo(d, n - 1), d.globalPatches[n])

\* the data applyPatches starts its loop with
SortedBefore == [prev EXCEPT !.globalPatches = SortPatches(prev, prev.globalPatches)]

\* C29: when an operation ends marked failed, the content of every
\* definition equals what it was immediately before the operation was
\* attempted, also when it matched several definitions and its mutation
\* failed on a later one after succeeding on earlier ones.
C29_FailedOperationLeavesContent ==
    phase = "patched" =>
        \A n \in 1..Len(data.globalPatches) :
            data.patchObjs[data.globalPatches[n]].success = "false" =>
                \A id \in DOMAIN data.objs :
                    ApplyUpTo(SortedBefore, n).objs[id].content
                        = ApplyUpTo(SortedBefore, n - 1).objs[id].content

(***************************************************************************)
(* Source loading and the load-order advisory: ModLoader.loadMods and      *)
(* validateLoadOrder, ToolHandlers.handleSuggestLoadOrder.  data.mods maps *)
(* a key to a ModInfo and data.loadOrder lists the keys in the order of    *)
(* insertion; the key is 'Core' for the base game, the folder name for an  *)
(* expansion and the packageId for every other source.  The specifications *)
(* above take the three sources Mods as loaded; here the About documents   *)
(* of the folders found are the input.  They declare no incompatibleWith,  *)
(* loadAfter or loadBefore.                                                *)
(***************************************************************************)
About(place, folder, packageId, dependencies) ==
    [kind |-> "about", place |-> place, folder |-> folder, packageId |-> packageId,
     dependencies |-> dependencies]

\* loadModInfo(modPath, loadOrder, isCore, isDLC)
loadModInfo(about, order) ==
    [packageId |-> about.packageId,
     loadOrder |-> order,
     isCore |-> about.place = "core",
     isDLC |-> about.place = "dlc",
     dependencies |-> about.dependencies]

\* the key under which loadMods and loadAdditionalMods store a source
KeyOf(about) == IF about.place = "mod" THEN about.packageId ELSE about.folder

\* loadMods and loadAdditionalMods: every folder takes the next index; a
\* source whose packageId is a key already is not stored
RECURSIVE LoadFrom(_, _, _)
LoadFrom(d, abouts, i) ==
    IF i > Len(abouts) THEN d
    ELSE LET key == KeyOf(abouts[i])
         IN  IF abouts[i].place = "mod" /\ key \in DOMAIN d.mods
             THEN LoadFrom(d, abouts, i + 1)
             ELSE LoadFrom([d EXCEPT !.mods = Put(@, key, loadModInfo(abouts[i], i - 1)),
                                     !.loadOrder = Append(@, key)],
                           abouts, i + 1)

\* description names the dependency; it is kept as that name
MissingDependency(modKeys, dep) ==
    [type |-> "missing_dependency", severity |-> "error", mods |-> modKeys,
     description |-> dep]

\* the issues of the dependencies of the source stored under key, from
\* the j-th dependency on
RECURSIVE DependencyIssues(_, _, _)
DependencyIssues(d, key, j) ==
    LET mod == d.mods[key]
    IN  IF j > Len(mod.dependencies) THEN <<>>
        ELSE LET dep == mod.dependencies[j]
                 rest == DependencyIssues(d, key, j + 1)
             IN  IF dep \notin DOMAIN d.mods THEN <<MissingDependency(<<key>>, dep)>> \o rest
                 ELSE IF d.mods[dep].loadOrder > mod.loadOrder
                 THEN <<MissingDependency(<<key, dep>>, dep)>> \o rest
                 ELSE rest

RECURSIVE IssuesFrom(_, _)
IssuesFrom(d, i) ==
    IF i > Len(d.loadOrder) THEN <<>>
    ELSE DependencyIssues(d, d.loadOrder[i], 1) \o IssuesFrom(d, i + 1)

validateLoadOrder(d) == [d EXCEPT !.conflicts = @ \o IssuesFrom(d, 1)]

loadMods(d, abouts) == validateLoadOrder(LoadFrom(d, abouts, 1))

\* RimWorldDefsServer.start: await this.modLoader.loadMods(this.data)
LoadMods ==
    /\ phase = "constructed"
    /\ data' = loadMods(data, docs)
    /\ phase' = "loaded"
    /\ prev' = data
    /\ UNCHANGED <<docs, pending, scans, reply, running>>

\* RimWorldDefsServer.start from the scan to server.connect, for sources
\* that hold no Defs and no Patches directory: nothing is registered,
\* patched, resolved, extracted or detected
ServeWithoutContent ==
    /\ phase = "loaded"
    /\ \A i \in DOMAIN docs : docs[i].kind = "about"
    /\ phase' = "serving"
    /\ UNCHANGED <<docs, pending, data, prev, scans, reply, running>>

\* mod.isCore ? 0 : mod.isDLC ? 100 : 1000
BaseScore(mod) == IF mod.isCore THEN 0 ELSE IF mod.isDLC THEN 100 ELSE 1000

Max(a, b) == IF a >= b THEN a ELSE b

\* calculateLoadOrderScore.  active holds the keys of the calls that have
\* not returned: a call for one of them repeats the calls that led to it
\* without end, until the engine throws RangeError.  The result is the
\* score and whether the stack overflowed.
RECURSIVE calculateLoadOrderScore(_, _, _)

RECURSIVE ScoreOverDeps(_, _, _, _, _)
ScoreOverDeps(d, key, j, score, active) ==
    LET mod == d.mods[key]
    IN  IF j > Len(mod.dependencies) THEN [score |-> score, overflow |-> FALSE]
        ELSE LET dep == mod.dependencies[j]
             IN  IF dep \notin DOMAIN d.mods THEN ScoreOverDeps(d, key, j + 1, score, active)
                 ELSE LET r == calculateLoadOrderScore(d, dep, active \cup {key})
                      IN  IF r.overflow THEN r
                          ELSE ScoreOverDeps(d, key, j + 1, Max(score, r.score + 1), active)

calculateLoadOrderScore(d, key, active) ==
    IF key \in active THEN [score |-> 0, overflow |-> TRUE]
    ELSE ScoreOverDeps(d, key, 1, BaseScore(d.mods[key]), active)

\* c.mods.some(m => m.packageId === modId), modId being the key
ConflictsNaming(d, key) ==
    Cardinality({k \in 1..Len(d.conflicts) :
                    \E i \in 1..Len(d.conflicts[k].mods) :
                        /\ d.conflicts[k].mods[i] \in DOMAIN d.mods
                        /\ d.mods[d.conflicts[k].mods[i]].packageId = key})

Suggestion(d, key, score) ==
    [key |-> key,
     packageId |-> d.mods[key].packageId,
     currentOrder |-> d.mods[key].loadOrder,
     suggestedOrder |-> score,
     conflicts |-> ConflictsNaming(d, key)]

\* suggestions.sort((a, b) => a.suggestedOrder - b.suggestedOrder), stable
RECURSIVE InsertByScore(_, _)
InsertByScore(sorted, s) ==
    IF sorted = <<>> THEN <<s>>
    ELSE IF s.suggestedOrder < Head(sorted).suggestedOrder THEN <<s>> \o sorted
    ELSE <<Head(sorted)>> \o InsertByScore(Tail(sorted), s)

RECURSIVE SortByScore(_)
SortByScore(q) ==
    IF q = <<>> THEN <<>>
    ELSE InsertByScore(SortByScore(SubSeq(q, 1, Len(q) - 1)), q[Len(q)])

\* the loop of handleSuggestLoadOrder from the i-th source on
RECURSIVE SuggestionsFrom(_, _)
SuggestionsFrom(d, i) ==
    IF i > Len(d.loadOrder) THEN [list |-> <<>>, overflow |-> FALSE]
    ELSE LET r == calculateLoadOrderScore(d, d.loadOrder[i], {})
             rest == SuggestionsFrom(d, i + 1)
         IN  IF r.overflow \/ rest.overflow THEN [list |-> <<>>, overflow |-> TRUE]
             ELSE [list |-> <<Suggestion(d, d.loadOrder[i], r.score)>> \o rest.list,
                   overflow |-> FALSE]

\* the answer to a suggestLoadOrder request: the error caught by the
\* request handler, or the sorted suggestions
handleSuggestLoadOrder(d) ==
    LET r == SuggestionsFrom(d, 1)
    IN  IF r.overflow THEN [isError |-> TRUE]
        ELSE [suggestions |-> SortByScore(r.list),
              hasConflicts |-> Len(d.conflicts) > 0,
              conflictCount |-> Len(d.conflicts)]

HandleSuggestLoadOrder ==
    /\ phase = "serving"
    /\ reply' = handleSuggestLoadOrder(data)
    /\ prev' = data
    /\ UNCHANGED <<docs, pending, data, phase, scans, running>>

MaxModFolders == 2

CorePackageId == "ludeon.rimworld"

RoyaltyPackageId == "ludeon.rimworld.royalty"

IdeologyPackageId == "ludeon.rimworld.ideology"

\* the dependency lists of the About documents: none, one name, or one
\* name twice
DepLists(ids) == {<<>>} \cup {<<a>> : a \in ids} \cup {<<a, a>> : a \in ids}

\* the expansions found: none, Royalty, Ideology or both, one of them
\* perhaps requiring the other
DlcAbouts ==
    {<<>>}
    \cup {<<About("dlc", "Royalty", RoyaltyPackageId, <<>>)>>,
          <<About("dlc", "Ideology", IdeologyPackageId, <<>>)>>}
    \cup {<<About("dlc", "Royalty", RoyaltyPackageId, dr),
            About("dlc", "Ideology", IdeologyPackageId, di)>> :
            dr \in {<<>>, <<IdeologyPackageId>>}, di \in {<<>>, <<RoyaltyPackageId>>}}

ModAbouts ==
    {About("mod", id, id, deps) :
        id \in {"ModA", "ModB"},
        deps \in DepLists({"ModA", "ModB", RoyaltyPackageId, "Gone"})}

\* the folders found, in the order loadMods reads them
AboutLists ==
    {<<About("core", "Core", CorePackageId, <<>>)>> \o dlcs \o folders :
        dlcs \in DlcAbouts,
        folders \in UNION {[1..k -> ModAbouts] : k \in 0..MaxModFolders}}

\* the server after construction
InitMods ==
    /\ docs \in AboutLists
    /\ pending = {}
    /\ data = EmptyData
    /\ phase = "constructed"
    /\ prev = EmptyData
    /\ scans = NoScans
    /\ reply = NoReply
    /\ running = Idle

NextMods ==
    \/ LoadMods
    \/ ServeWithoutContent
    \/ HandleSuggestLoadOrder

SpecMods == InitMods /\ [][NextMods]_vars

(***************************************************************************)
(* Load-order claims                                                       *)
(***************************************************************************)
\* the keys of the loaded sources whose package id is id
LoadedAs(id) == {k \in DOMAIN data.mods : data.mods[k].packageId = id}

\* the loaded required dependencies of the source stored under key
LoadedDependencies(key) ==
    UNION {LoadedAs(data.mods[key].dependencies[j]) : j \in 1..Len(data.mods[key].dependencies)}

\* the sources reached from the set s by one to n dependency declarations
RECURSIVE DependenciesWithin(_, _)
DependenciesWithin(s, n) ==
    IF n = 0 THEN {}
    ELSE LET next == UNION {LoadedDependencies(k) : k \in s}
         IN  next \cup DependenciesWithin(next, n - 1)

AcyclicDependencies ==
    \A k \in DOMAIN data.mods : k \notin DependenciesWithin({k}, Cardinality(DOMAIN data.mods))

\* the greatest element of a nonempty set of numbers
Greatest(S) == CHOOSE x \in S : \A y \in S : y <= x

\* max(base score, 1 + score of every loaded required dependency)
RECURSIVE RequiredScore(_)
RequiredScore(key) ==
    Greatest({BaseScore(data.mods[key])}
             \cup {RequiredScore(k) + 1 : k \in LoadedDependencies(key)})

\* the place of the source stored under key in the suggested order
PlaceOf(key) == CHOOSE i \in 1..Len(reply.suggestions) : reply.suggestions[i].key = key

Advised == phase = "serving" /\ reply # NoReply

\* C26: for sources whose required-dependency declarations are acyclic the
\* advisory score of a source is the maximum of its base score and of
\* 1 + score(D) over every loaded required dependency D, so the suggested
\* order lists every loaded required dependency before its dependant;
\* computing the advisory changes no rank, no definition and no conflict.
C26_ScoreFollowsDependencies ==
    (Advised /\ AcyclicDependencies) =>
        /\ "suggestions" \in DOMAIN reply
        /\ {reply.suggestions[i].key : i \in 1..Len(reply.suggestions)} = DOMAIN data.mods
        /\ \A i \in 1..Len(reply.suggestions) :
            reply.suggestions[i].suggestedOrder = RequiredScore(reply.suggestions[i].key)
        /\ \A k \in DOMAIN data.mods : \A dep \in LoadedDependencies(k) :
            PlaceOf(dep) < PlaceOf(k)
        /\ data = prev

\* the missing-dependency conflicts recorded for the source stored under
\* key and its required dependency dep
MissingDependencyConflicts(key, dep) ==
    {k \in 1..Len(data.conflicts) :
        /\ data.conflicts[k].type = "missing_dependency"
        /\ data.conflicts[k].mods[1] = key
        /\ data.conflicts[k].description = dep}

\* C27: after source loading, for every loaded source S and every required
\* dependency D of S exactly one missing-dependency conflict of severity
\* error is recorded when D is not loaded (naming S) or is loaded with a
\* higher priority rank than S (naming S and D), and none when D is loaded
\* with a lower rank than S.
C27_DependencyConflicts ==
    phase # "constructed" =>
        \A key \in DOMAIN data.mods : \A j \in 1..Len(data.mods[key].dependencies) :
            LET dep == data.mods[key].dependencies[j]
                found == MissingDependencyConflicts(key, dep)
            IN  IF LoadedAs(dep) = {}
                THEN /\ Cardinality(found) = 1
                     /\ \A k \in found : /\ data.conflicts[k].mods = <<key>>
                                         /\ data.conflicts[k].severity = "error"
                ELSE \A D \in LoadedAs(dep) :
                        /\ data.mods[D].loadOrder > data.mods[key].loadOrder =>
                            /\ Cardinality(found) = 1
                            /\ \A k \in found : /\ data.conflicts[k].mods = <<key, D>>
                                                /\ data.conflicts[k].severity = "error"
                        /\ data.mods[D].loadOrder < data.mods[key].loadOrder => found = {}

\* C30: the load-order advisory terminates and returns a score for every
\* loaded source for every set of dependency declarations, including two
\* loaded sources that each require the other and a source that requires
\* itself.
C30_AdvisoryAlwaysAnswers ==
    Advised =>
        /\ "suggestions" \in DOMAIN reply
        /\ {reply.suggestions[i].key : i \in 1..Len(reply.suggestions)} = DOMAIN data.mods

====
